---- MODULE Spec2Model ----
(***************************************************************************)
(* FBFT leader of one shard: Announce / onPrepare / onCommit,              *)
(* FinalizeCommits / tryCatchup, the leader work loops of StartLeaderWork, *)
(* and the commit payload of package signature.                            *)
(***************************************************************************)
EXTENDS Integers, Sequences, FiniteSets, TLC

\* ------------------------------------------------------------------ bounds
\* committee size (member 1 is this node; the last member may also send
\* faulty messages)
NumMembers == 4
\* proposals the leader makes before the model stops proposing
MaxProposals == 2
\* AfterFunc timers and commit-finish signals outstanding at one time
MaxSignals == 1
\* slash records the slash channel holds
MaxSlash == 2
\* faulty messages the Byzantine member gets handled
MaxFaulty == 1

\* ------------------------------------------------------- program constants
\* consensus.BlockTime, in seconds
BlockTime == 8
\* StartLeaderWork: bufferTime > time.Second*3
BufferLimit == 3
\* StartLeaderWork: time.Sleep(time.Second)
BufferSleep == 1

\* ------------------------------------------------------------- committee
Committee == 1..NumMembers
Self == 1
Byzantine == {NumMembers}
Validators == Committee \ {Self}

Phases == {"Prepare", "Commit"}
NoBallot == [none |-> TRUE]
NoBlock == [none |-> TRUE]

\* ---------------------------------------------------------------- hashes
\* common.Hash{} : the zero hash
ZeroHash == <<>>
\* hash of the genesis header
GenesisHash == <<0>>
\* a hash no block of the leader has
BadHash == <<255>>

\* Block.Hash(): content address of the header, modelled as an injective
\* byte string (fixed-width fields followed by the parent hash)
Hash(header) ==
    <<header.number, header.viewID, header.salt>> \o header.parent

\* ------------------------------------------------------- commit payload
\* binary.LittleEndian.PutUint64 into a buffer of k bytes
RECURSIVE PutUintLE(_, _)
PutUintLE(n, k) ==
    IF k = 0 THEN <<>> ELSE <<n % 256>> \o PutUintLE(n \div 256, k - 1)

\* the payload without the staking branch: the view-id is never appended
ConstructCommitPayload_NoViewID(isStaking, blockHash, blockNum, viewID) ==
    PutUintLE(blockNum, 8) \o blockHash

\* signature.ConstructCommitPayload
ConstructCommitPayload(isStaking, blockHash, blockNum, viewID) ==
    LET blockNumBytes == PutUintLE(blockNum, 8)
        commitPayload == blockNumBytes \o blockHash
    IN  IF ~isStaking THEN commitPayload
        ELSE commitPayload \o PutUintLE(viewID, 8)

\* a BLS signature by signer over the bytes `over`
Sign(signer, over) == [signer |-> signer, over |-> over]
\* sign.VerifyHash(pubKey, bytes)
VerifyHash(sig, pubKey, bytes) == sig.signer = pubKey /\ sig.over = bytes

\* ------------------------------------------------------------ variables
VARIABLES
    consensus,          \* the Consensus object and the collaborators it writes
    proposalNewBlock,   \* Consensus.ProposalNewBlock: signals pending
    commitFinishChan,   \* Consensus.CommitFinishChan: view-ids pending
    proposerPC,         \* StartLeaderWork, first task
    finishPC,           \* StartLeaderWork, second task
    finishWake,         \* seconds left of the second task's time.Sleep
    isStaking,          \* chain.Config().IsStaking(epoch)
    peer,               \* the honest validators: their chain, their PREPARED
    payloadCall,        \* one call of ConstructCommitPayload: inputs, result
    node,               \* the Node object: its loops and its sync state
    hist                \* history of announcements and finalizations

vars == <<consensus, proposalNewBlock, commitFinishChan, proposerPC,
          finishPC, finishWake, isStaking, peer, payloadCall, node, hist>>

\* ------------------------------------------------------------ chain store
HeadHash(c) ==
    IF c.chain = <<>> THEN GenesisHash ELSE Hash(c.chain[Len(c.chain)])
HeadNumber(c) ==
    IF c.chain = <<>> THEN 0 ELSE c.chain[Len(c.chain)].number

\* ---------------------------------------------------------------- FBFT log
AddMessage(c, m) == [c EXCEPT !.msgs = @ \cup {m}]
AddBlock(c, b) == [c EXCEPT !.blocks = @ \cup {b}]
GetMessagesByTypeSeq(c, t, n) ==
    {m \in c.msgs : m.type = t /\ m.blockNum = n}
GetMessagesByTypeSeqHash(c, t, n, h) ==
    {m \in c.msgs : m.type = t /\ m.blockNum = n /\ m.blockHash = h}
GetBlockByHash(c, h) ==
    IF \E b \in c.blocks : Hash(b) = h
    THEN CHOOSE b \in c.blocks : Hash(b) = h
    ELSE NoBlock
FindMessageByMaxViewID(ms) ==
    IF ms = {} THEN NoBlock
    ELSE CHOOSE m \in ms : \A o \in ms : o.viewID <= m.viewID
DeleteBlocksLessThan(c, n) ==
    [c EXCEPT !.blocks = {b \in @ : ~(b.number < n)}]
DeleteMessagesLessThan(c, n) ==
    [c EXCEPT !.msgs = {m \in @ : ~(m.blockNum < n)}]
HasMatchingViewAnnounce(c, n, v, h) ==
    \E m \in c.msgs : /\ m.type = "ANNOUNCE" /\ m.blockNum = n
                      /\ m.viewID = v /\ m.blockHash = h

\* ----------------------------------------------------------- quorum decider
ReadBallot(c, p, k) == c.ballots[p][k]
Signers(c, p) == {k \in Committee : c.ballots[p][k] # NoBallot}
SignersCount(c, p) == Cardinality(Signers(c, p))
IsQuorumAchieved(c, p) == 3 * SignersCount(c, p) > 2 * NumMembers
IsAllSigsCollected(c) == SignersCount(c, "Commit") = NumMembers
\* the result of SubmitVote: the decider afterwards, and whether it failed
SubmitVote(c, p, k, sig, h, n, v) ==
    IF k \notin Committee THEN [c |-> c, err |-> TRUE]
    ELSE IF c.ballots[p][k] # NoBallot THEN [c |-> c, err |-> FALSE]
    ELSE [c |-> [c EXCEPT !.ballots[p][k] =
                    [sig |-> sig, hash |-> h, num |-> n, view |-> v]],
          err |-> FALSE]
\* the aggregate of a phase's signatures and the phase's bitmap
AggregatePayload(c, p, bitmap) ==
    [sigs |-> {c.ballots[p][k].sig : k \in Signers(c, p)}, bitmap |-> bitmap]

IsLeader(c) == c.leaderPubKey = Self

\* consensus.construct: a message of the leader about its current block
Construct(c, t) ==
    [type |-> t, blockNum |-> c.blockNum, viewID |-> c.viewID,
     blockHash |-> c.blockHash, sender |-> Self,
     payload |-> CASE t = "ANNOUNCE" -> c.block
                   [] t = "PREPARED" ->
                        AggregatePayload(c, "Prepare", c.prepareBitmap)
                   [] OTHER ->
                        AggregatePayload(c, "Commit", c.commitBitmap)]

\* host.SendMessageToGroups of the shard group
Broadcast(c, m) == [c EXCEPT !.sent = @ \cup {m}]

\* Consensus.ResetState
ResetState(c) ==
    [c EXCEPT !.phase = "Announce",
              !.blockHash = ZeroHash,
              !.block = NoBlock,
              !.ballots = [p \in Phases |-> [k \in Committee |-> NoBallot]],
              !.prepareBitmap = {},
              !.commitBitmap = {}]

Ok(c) == [c |-> c, err |-> FALSE, panic |-> FALSE]
Fail(c) == [c |-> c, err |-> TRUE, panic |-> FALSE]
\* the call does not return: the goroutine panics
Panic(c) == [c |-> c, err |-> FALSE, panic |-> TRUE]

\* ------------------------------------------------------------- Announce
\* sendOK: whether host.SendMessageToGroups succeeds
\* Announce that sets the leader's bit only once the message is sent
Announce_BitAfterSend(c0, block, sendOK) ==
    LET c1 == [c0 EXCEPT !.blockHash = Hash(block), !.block = block]
    IN  IF ~IsLeader(c1) THEN Fail(c1)
        ELSE
        LET msg == Construct(c1, "ANNOUNCE")
            c2 == AddBlock(AddMessage(c1, msg), block)
            vote == SubmitVote(c2, "Prepare", Self, Sign(Self, c2.blockHash),
                               c2.blockHash, c2.blockNum, c2.viewID)
            c3 == [vote.c EXCEPT !.prepareBitmap = @ \cup {Self}]
        IN  IF vote.err THEN Fail(vote.c)
            ELSE IF ~sendOK THEN Fail(vote.c)
            ELSE Ok([Broadcast(c3, msg) EXCEPT !.phase = "Prepare"])

Announce(c0, block, sendOK) ==
    LET c1 == [c0 EXCEPT !.blockHash = Hash(block), !.block = block]
    IN  IF ~IsLeader(c1) THEN Fail(c1)
        ELSE
        LET msg == Construct(c1, "ANNOUNCE")
            c2 == AddBlock(AddMessage(c1, msg), block)
            vote == SubmitVote(c2, "Prepare", Self, Sign(Self, c2.blockHash),
                               c2.blockHash, c2.blockNum, c2.viewID)
            c3 == [vote.c EXCEPT !.prepareBitmap = @ \cup {Self}]
        IN  IF vote.err THEN Fail(vote.c)
            ELSE IF ~sendOK THEN Fail(c3)
            ELSE Ok([Broadcast(c3, msg) EXCEPT !.phase = "Prepare"])

\* ------------------------------------------------------------ onPrepare
\* didReachPrepareQuorum: PREPARED is logged and broadcast, the leader
\* votes COMMIT on the commit payload
didReachPrepareQuorum(c0) ==
    LET msg == Construct(c0, "PREPARED")
        c1 == AddMessage(c0, msg)
        commitPayload == ConstructCommitPayload(
                            isStaking, c1.blockHash, c1.blockNum, c1.viewID)
        vote == SubmitVote(c1, "Commit", Self, Sign(Self, commitPayload),
                           c1.blockHash, c1.blockNum, c1.viewID)
        c2 == [vote.c EXCEPT !.commitBitmap = @ \cup {Self}]
    IN  IF vote.err THEN Fail(vote.c) ELSE Ok(Broadcast(c2, msg))

\* onPrepare that goes on counting after the quorum is reached
onPrepare_CountsAfterQuorum(c, recvMsg) ==
    IF ~IsLeader(c) THEN Ok(c)
    ELSE IF recvMsg.viewID # c.viewID \/ recvMsg.blockNum # c.blockNum
    THEN Fail(c)
    ELSE IF ReadBallot(c, "Prepare", recvMsg.sender) # NoBallot THEN Ok(c)
    ELSE IF ~VerifyHash(recvMsg.payload, recvMsg.sender, c.blockHash)
    THEN Fail(c)
    ELSE
    LET vote == SubmitVote(c, "Prepare", recvMsg.sender, recvMsg.payload,
                           recvMsg.blockHash, recvMsg.blockNum, recvMsg.viewID)
        c1 == [vote.c EXCEPT !.prepareBitmap = @ \cup {recvMsg.sender}]
    IN  IF vote.err THEN Fail(vote.c)
        ELSE IF IsQuorumAchieved(c1, "Prepare")
        THEN LET r == didReachPrepareQuorum(c1)
             IN  IF r.err THEN r ELSE Ok([r.c EXCEPT !.phase = "Commit"])
        ELSE Ok(c1)

onPrepare(c, recvMsg) ==
    IF ~IsLeader(c) THEN Ok(c)
    ELSE IF recvMsg.viewID # c.viewID \/ recvMsg.blockNum # c.blockNum
    THEN Fail(c)
    ELSE IF ReadBallot(c, "Prepare", recvMsg.sender) # NoBallot THEN Ok(c)
    ELSE IF IsQuorumAchieved(c, "Prepare") THEN Ok(c)
    ELSE IF ~VerifyHash(recvMsg.payload, recvMsg.sender, c.blockHash)
    THEN Fail(c)
    ELSE
    LET vote == SubmitVote(c, "Prepare", recvMsg.sender, recvMsg.payload,
                           recvMsg.blockHash, recvMsg.blockNum, recvMsg.viewID)
        c1 == [vote.c EXCEPT !.prepareBitmap = @ \cup {recvMsg.sender}]
    IN  IF vote.err THEN Fail(vote.c)
        ELSE IF IsQuorumAchieved(c1, "Prepare")
        THEN LET r == didReachPrepareQuorum(c1)
             IN  IF r.err THEN r ELSE Ok([r.c EXCEPT !.phase = "Commit"])
        ELSE Ok(c1)

\* ------------------------------------------------------------- onCommit
isRightBlockNumAndViewID(c, recvMsg) ==
    recvMsg.viewID = c.viewID /\ recvMsg.blockNum = c.blockNum

SelfCoinbase == "selfCoinbase"

\* checkDoubleSign: the signer already holds a Commit ballot on another
\* hash at this block number and view: a slash candidate goes out
IsDoubleSign(c, recvMsg) ==
    LET ballot == ReadBallot(c, "Commit", recvMsg.sender)
    IN  /\ ballot # NoBallot
        /\ ballot.num = recvMsg.blockNum
        /\ ballot.view = recvMsg.viewID
        /\ ballot.hash # recvMsg.blockHash
SlashCandidate(c, recvMsg) ==
    LET ballot == ReadBallot(c, "Commit", recvMsg.sender)
    IN  [offender |-> recvMsg.sender,
         signed |-> [hash |-> ballot.hash, sig |-> ballot.sig],
         doubleSigned |-> [hash |-> recvMsg.blockHash,
                           sig |-> recvMsg.payload],
         beneficiary |-> SelfCoinbase]
checkDoubleSign(c, recvMsg) ==
    IF IsDoubleSign(c, recvMsg)
    THEN [c |-> [c EXCEPT !.slashChan =
                    Append(@, SlashCandidate(c, recvMsg))],
          double |-> TRUE]
    ELSE [c |-> c, double |-> FALSE]

\* onCommit, line 290: when the finalization timer is started
FinalizationDue(c) == IsAllSigsCollected(c)

onCommit(c, recvMsg) ==
    IF ~IsLeader(c) THEN Ok(c)
    ELSE IF ~isRightBlockNumAndViewID(c, recvMsg) THEN Ok(c)
    ELSE
    LET ds == checkDoubleSign(c, recvMsg)
        commitPayload == ConstructCommitPayload(
            isStaking, recvMsg.blockHash, recvMsg.blockNum, c.viewID)
    IN  IF ds.double THEN Ok(ds.c)
        ELSE IF ~VerifyHash(recvMsg.payload, recvMsg.sender, commitPayload)
        THEN Fail(c)
        ELSE
        LET vote == SubmitVote(c, "Commit", recvMsg.sender, recvMsg.payload,
                        recvMsg.blockHash, recvMsg.blockNum, recvMsg.viewID)
            c1 == [vote.c EXCEPT !.commitBitmap = @ \cup {recvMsg.sender}]
        IN  IF vote.err THEN Fail(vote.c)
            ELSE IF FinalizationDue(c1)
            THEN Ok([c1 EXCEPT !.timers = Append(@, c1.nextBlockDue)])
            ELSE Ok(c1)

\* ----------------------------------------------------------- tryCatchup
\* PostConsensus.Process: the round-completed request inserts the block
PostConsensusProcess(c, block) == [c EXCEPT !.chain = Append(@, block)]

\* tryCatchup, line 894: more than one COMMITTED at the block number
TooManyCommitted(msgs) == Cardinality(msgs) > 1

\* tryCatchup without the parent check
ParentHashMatches_Unchecked(c, block) == TRUE

\* tryCatchup, line 934
ParentHashMatches(c, block) == block.parent = HeadHash(c)

\* the advance with the view-id left at the committed message's
AdvanceConsensus_SameView(c, committedMsg) ==
    [c EXCEPT !.blockHash = ZeroHash,
              !.blockNum = c.blockNum + 1,
              !.viewID = committedMsg.viewID,
              !.leaderPubKey = committedMsg.sender]

\* tryCatchup, lines 951-955
AdvanceConsensus(c, committedMsg) ==
    [c EXCEPT !.blockHash = ZeroHash,
              !.blockNum = c.blockNum + 1,
              !.viewID = committedMsg.viewID + 1,
              !.leaderPubKey = committedMsg.sender]

\* the clean-up with the current block number as the watermark
CleanUpOldLog_Current(c) ==
    DeleteMessagesLessThan(DeleteBlocksLessThan(c, c.blockNum), c.blockNum)

\* tryCatchup, lines 991-993: clean up old log
CleanUpOldLog(c) ==
    DeleteMessagesLessThan(DeleteBlocksLessThan(c, c.blockNum - 1),
                           c.blockNum - 1)

\* tryCatchup, lines 977-994, entered with the block number at the call
AfterCatchup(c, then) ==
    LET c1 == IF then < c.blockNum THEN [c EXCEPT !.phase = "Announce"]
              ELSE c
        c2 == IF then < c1.blockNum /\ c1.mode = "ViewChanging"
              THEN [c1 EXCEPT !.mode = "Normal"] ELSE c1
    IN  Ok(CleanUpOldLog(c2))

\* ext: what the collaborators answer (ChainVerifier.ValidateBody before
\* and after the commit signature is filled in, PostConsensus.Process)
tryCatchup(c, ext) ==
    LET then == c.blockNum
        msgs == GetMessagesByTypeSeq(c, "COMMITTED", c.blockNum)
    IN  IF msgs = {} THEN AfterCatchup(c, then)
        ELSE IF TooManyCommitted(msgs) THEN Fail(c)
        ELSE
        LET committedMsg == CHOOSE m \in msgs : TRUE
            block == GetBlockByHash(c, committedMsg.blockHash)
        IN  IF block = NoBlock THEN Fail(c)
            ELSE IF ~ext.validate1 THEN Fail(c)
            ELSE IF ~ParentHashMatches(c, block) THEN Fail(c)
            ELSE
            LET preparedMsgs == GetMessagesByTypeSeqHash(c, "PREPARED",
                        committedMsg.blockNum, committedMsg.blockHash)
                msg == FindMessageByMaxViewID(preparedMsgs)
                c1 == AdvanceConsensus(c, committedMsg)
            IN  IF msg = NoBlock THEN AfterCatchup(c, then)
                ELSE IF ~ext.validate2 THEN Fail(c1)
                ELSE IF ~ext.process THEN Fail(c1)
                ELSE AfterCatchup(
                        ResetState(PostConsensusProcess(c1, block)), then)

\* ------------------------------------------------------ FinalizeCommits
FinalizeCommits(c0, ext) ==
    IF ~IsLeader(c0) THEN Fail(c0)
    ELSE
    LET FBFTMsg == Construct(c0, "COMMITTED")
        c1 == AddMessage(c0, FBFTMsg)
        block == GetBlockByHash(c1, c1.blockHash)
    IN  IF block = NoBlock THEN Fail(c1)
        ELSE
        LET r == tryCatchup(c1, ext)
        IN  IF r.err THEN r
            ELSE IF ~ext.send THEN Fail(r.c)
            ELSE Ok(Broadcast(r.c, FBFTMsg))

\* -------------------------------------------------- HandleMessageUpdate
\* leaderSanityChecks: the sender is a committee member
leaderSanityChecks(c, msg) == msg.sender \in Committee
\* validatorSanityChecks, viewChangeSanityCheck: the same of the messages
\* meant for a validator
validatorSanityChecks(c, msg) == msg.sender \in Committee
viewChangeSanityCheck(c, msg) == msg.sender \in Committee

\* an aggregate signature verifies under the mask and the mask is a quorum
VerifyAggregate(payload, bytes) ==
    /\ {sig.signer : sig \in payload.sigs} = payload.bitmap
    /\ \A sig \in payload.sigs : sig.over = bytes
    /\ 3 * Cardinality(payload.bitmap) > 2 * NumMembers

\* msg.GetNewBlock(): the new-block request of the message, nil when the
\* message carries another request
GetNewBlock(msg) ==
    IF "newBlock" \in DOMAIN msg THEN msg.newBlock ELSE NoBlock


\* this node's vote on the block of a message it received as a validator
Vote(c, t, msg, over) ==
    [type |-> t, blockNum |-> msg.blockNum, viewID |-> msg.viewID,
     blockHash |-> msg.blockHash, sender |-> Self,
     payload |-> Sign(Self, over), shardID |-> c.shardID]

\* onAnnounce: the message and its block are logged; the header is
\* validated against the chain, then PREPARE goes to the leader
onAnnounce(c, msg) ==
    LET c1 == AddBlock(AddMessage(c, msg), msg.payload)
    IN  IF msg.payload.parent # HeadHash(c1) THEN Fail(c1)
        ELSE Ok(Broadcast(c1, Vote(c1, "PREPARE", msg, msg.blockHash)))

\* onPrepared: the aggregate prepare signature meets quorum; the message
\* is logged and COMMIT goes to the leader
onPrepared(c, msg) ==
    IF ~VerifyAggregate(msg.payload, msg.blockHash) THEN Fail(c)
    ELSE LET c1 == AddMessage(c, msg)
         IN  Ok(Broadcast(c1, Vote(c1, "COMMIT", msg,
                    ConstructCommitPayload(isStaking, msg.blockHash,
                                           msg.blockNum, msg.viewID))))

\* onCommitted: the aggregate commit signature meets quorum; the message
\* is logged and tryCatchup commits the block (its collaborators succeed)
onCommitted(c, msg) ==
    IF ~VerifyAggregate(msg.payload, ConstructCommitPayload(
                isStaking, msg.blockHash, msg.blockNum, msg.viewID))
    THEN Fail(c)
    ELSE tryCatchup(AddMessage(c, msg),
                    [validate1 |-> TRUE, validate2 |-> TRUE,
                     process |-> TRUE, send |-> TRUE])

\* onViewChange: the designated next leader collects the message; this
\* node is not the next leader
onViewChange(c, msg) ==
    IF Self = (msg.viewID % NumMembers) + 1 THEN Ok(AddMessage(c, msg))
    ELSE Ok(c)

\* onNewView: back to Normal mode under the new leader and view
onNewView(c, msg) ==
    IF c.mode # "ViewChanging" THEN Ok(c)
    ELSE Ok([AddMessage(c, msg) EXCEPT !.mode = "Normal",
                                       !.viewID = msg.viewID,
                                       !.leaderPubKey = msg.sender])

\* the dispatch without the ViewChanging drop of PREPARE and COMMIT
HandleMessageUpdate_NoModeCheck(c, msg) ==
    IF GetNewBlock(msg) # NoBlock THEN Panic(c)
    ELSE IF msg.shardID # c.shardID THEN Fail(c)
    ELSE IF msg.type = "ANNOUNCE" /\ validatorSanityChecks(c, msg)
    THEN onAnnounce(c, msg)
    ELSE IF msg.type = "PREPARED" /\ validatorSanityChecks(c, msg)
    THEN onPrepared(c, msg)
    ELSE IF msg.type = "COMMITTED" /\ validatorSanityChecks(c, msg)
    THEN onCommitted(c, msg)
    ELSE IF msg.type = "PREPARE" /\ leaderSanityChecks(c, msg)
    THEN onPrepare(c, msg)
    ELSE IF msg.type = "COMMIT" /\ leaderSanityChecks(c, msg)
    THEN onCommit(c, msg)
    ELSE IF msg.type = "VIEWCHANGE" /\ viewChangeSanityCheck(c, msg)
    THEN onViewChange(c, msg)
    ELSE IF msg.type = "NEWVIEW" /\ viewChangeSanityCheck(c, msg)
    THEN onNewView(c, msg)
    ELSE Ok(c)

\* the dispatch without the shard-id check
HandleMessageUpdate_NoShardCheck(c, msg) ==
    IF GetNewBlock(msg) # NoBlock THEN Panic(c)
    ELSE IF c.mode = "ViewChanging" /\ msg.type \in {"PREPARE", "COMMIT"}
    THEN Fail(c)
    ELSE IF msg.type = "ANNOUNCE" /\ validatorSanityChecks(c, msg)
    THEN onAnnounce(c, msg)
    ELSE IF msg.type = "PREPARED" /\ validatorSanityChecks(c, msg)
    THEN onPrepared(c, msg)
    ELSE IF msg.type = "COMMITTED" /\ validatorSanityChecks(c, msg)
    THEN onCommitted(c, msg)
    ELSE IF msg.type = "PREPARE" /\ leaderSanityChecks(c, msg)
    THEN onPrepare(c, msg)
    ELSE IF msg.type = "COMMIT" /\ leaderSanityChecks(c, msg)
    THEN onCommit(c, msg)
    ELSE IF msg.type = "VIEWCHANGE" /\ viewChangeSanityCheck(c, msg)
    THEN onViewChange(c, msg)
    ELSE IF msg.type = "NEWVIEW" /\ viewChangeSanityCheck(c, msg)
    THEN onNewView(c, msg)
    ELSE Ok(c)

HandleMessageUpdate(c, msg) ==
    IF GetNewBlock(msg) # NoBlock THEN Panic(c)
    ELSE IF c.mode = "ViewChanging" /\ msg.type \in {"PREPARE", "COMMIT"}
    THEN Fail(c)
    ELSE IF msg.shardID # c.shardID THEN Fail(c)
    ELSE IF msg.type = "ANNOUNCE" /\ validatorSanityChecks(c, msg)
    THEN onAnnounce(c, msg)
    ELSE IF msg.type = "PREPARED" /\ validatorSanityChecks(c, msg)
    THEN onPrepared(c, msg)
    ELSE IF msg.type = "COMMITTED" /\ validatorSanityChecks(c, msg)
    THEN onCommitted(c, msg)
    ELSE IF msg.type = "PREPARE" /\ leaderSanityChecks(c, msg)
    THEN onPrepare(c, msg)
    ELSE IF msg.type = "COMMIT" /\ leaderSanityChecks(c, msg)
    THEN onCommit(c, msg)
    ELSE IF msg.type = "VIEWCHANGE" /\ viewChangeSanityCheck(c, msg)
    THEN onViewChange(c, msg)
    ELSE IF msg.type = "NEWVIEW" /\ viewChangeSanityCheck(c, msg)
    THEN onNewView(c, msg)
    ELSE Ok(c)

\* ------------------------------------------------------------ validators

\* the head of the honest validators' chain
PeerHead ==
    IF peer.chain = <<>> THEN GenesisHash
    ELSE Hash(peer.chain[Len(peer.chain)])
PeerNumber ==
    IF peer.chain = <<>> THEN 0 ELSE peer.chain[Len(peer.chain)].number

\* a validator signs one block for a block number and view, the one
\* announced first, and only a block that extends its chain
SignedByValidators(m) ==
    /\ m.type = "ANNOUNCE"
    /\ m.blockNum = PeerNumber + 1
    /\ m.payload.number = m.blockNum
    /\ m.payload.parent = PeerHead
    /\ \A o \in consensus.sent :
            (o.type = "ANNOUNCE" /\ o.blockNum = m.blockNum
                /\ o.viewID = m.viewID)
            => o.payload.salt >= m.payload.salt

\* the messages the validators send: PREPARE on the block they validated,
\* COMMIT on the block they hold PREPARED for. The network may deliver
\* each at any time and any number of times
HonestMessages ==
    {[type |-> "PREPARE", blockNum |-> m.blockNum, viewID |-> m.viewID,
      blockHash |-> m.blockHash, sender |-> k,
      payload |-> Sign(k, m.blockHash), shardID |-> 0] :
        k \in Validators, m \in {a \in consensus.sent : SignedByValidators(a)}}
    \cup
    {[type |-> "COMMIT", blockNum |-> m.blockNum, viewID |-> m.viewID,
      blockHash |-> m.blockHash, sender |-> k,
      payload |-> Sign(k, ConstructCommitPayload(isStaking, m.blockHash,
                                                 m.blockNum, m.viewID)),
      shardID |-> 0] :
        k \in Validators,
        m \in {a \in consensus.sent :
                SignedByValidators(a) /\ a.blockHash = peer.prepared}}

\* the faulty messages a Byzantine member may send once the leader has
\* announced a block: a vote on another hash, a signature that does not
\* verify, a vote for another view, a vote for another shard
ByzantineMessages ==
    LET c == consensus
        prepare(b, v, h, o, s) ==
            [type |-> "PREPARE", blockNum |-> c.blockNum, viewID |-> v,
             blockHash |-> h, sender |-> b, payload |-> Sign(b, o),
             shardID |-> s]
        commit(b, v, h, o, s) ==
            [type |-> "COMMIT", blockNum |-> c.blockNum, viewID |-> v,
             blockHash |-> h, sender |-> b,
             payload |-> Sign(b, ConstructCommitPayload(isStaking, o,
                                                        c.blockNum, v)),
             shardID |-> s]
    IN  IF c.blockHash = ZeroHash THEN {}
        ELSE UNION {
          {prepare(b, c.viewID, BadHash, c.blockHash, 0),
           commit(b, c.viewID, BadHash, BadHash, 0),
           prepare(b, c.viewID, c.blockHash, BadHash, 0),
           commit(b, c.viewID, c.blockHash, BadHash, 0),
           prepare(b, c.viewID + 1, c.blockHash, c.blockHash, 0),
           commit(b, c.viewID, c.blockHash, c.blockHash, 1)}
          : b \in Byzantine}

\* ----------------------------------------------------------------- Init
NoPayload == [blockHash |-> ZeroHash, blockNum |-> 0, viewID |-> 0,
              out |-> <<>>]
InitConsensus ==
    [blockNum |-> 1, viewID |-> 0, blockHash |-> ZeroHash, block |-> NoBlock,
     phase |-> "Announce", mode |-> "Normal", leaderPubKey |-> Self,
     shardID |-> 0,
     msgs |-> {}, blocks |-> {},
     ballots |-> [p \in Phases |-> [k \in Committee |-> NoBallot]],
     prepareBitmap |-> {}, commitBitmap |-> {},
     nextBlockDue |-> 0, timers |-> <<>>,
     chain |-> <<>>, sent |-> {}, slashChan |-> <<>>]

\* the Node after New: the finish task has received no signal yet, the
\* consensus loop runs
InitNode ==
    [quorumReached |-> 0, consensusLoop |-> "run",
     \* the VIEWCHANGE message the node built, if any
     viewChangeMsg |-> NoBlock,
     \* the sharding state of the epoch change: the shard state before and
     \* after Reshard, the new nodes and the seed
     reshard |-> [done |-> FALSE, rnd |-> 0, before |-> <<>>,
                  shardState |-> <<>>, newNodeList |-> <<>>],
     \* HandleIncomingBlock: the dispatcher task and the block it holds,
     \* the two inserter tasks, the blocks each chain got, blocks delivered
     incoming |-> [dispatcher |-> "recv", blk |-> NoBlock,
                   beacon |-> "recv", shard |-> "recv",
                   beaconchain |-> {}, blockchain |-> {}, delivered |-> 0],
     \* the last call of BlockCommitSig and what it returned
     lastCommitSig |-> NoBlock,
     \* the peers the host is connected to and the tip each of them has
     conns |-> <<>>, remote |-> <<>>,
     \* the beacon chain of a node of another shard
     beaconchain |-> <<>>,
     \* syncFromHMYPeersIfNeeded: where the call is, the clusters it has
     \* still to ask, the local height it started from, requests it sent
     syncPC |-> "idle", clusters |-> <<>>, start |-> 0, requests |-> {},
     rounds |-> 0,
     \* the incoming-blocks channel and the task that reads it
     incomingSyncingBlocks |-> <<>>, insertLoop |-> "run",
     \* the sync server: the last request it handled and its outcome
     served |-> NoBallot,
     \* StartBlockSyncing: the round counter, where the loop is, the map
     \* of stream handles (0: no handle for the peer), the handles made so
     \* far, the invalidated ones, the tasks of downloadBlocksForSync and
     \* the blocks the round has pulled
     round |-> 0, roundPC |-> "idle", streamHandles |-> <<>>,
     handles |-> 0, invalid |-> {}, senders |-> <<>>, blocksPulled |-> <<>>,
     \* the pool of pending cross-shard receipt proofs (one proof per key),
     \* the last message logged by the pool's functions and the receipts
     \* the last proposal selected
     pendingCXReceipts |-> {}, log |-> [level |-> "", msg |-> ""],
     validReceiptsList |-> <<>>,
     \* HandleConsensusBlockProcessing: the request each of the two tasks
     \* is serving (0: it waits for one) and what it has still to send;
     \* for every request made so far what was asked and what came back
     roundCompleted |-> [req |-> 0, sends |-> <<>>],
     verify |-> [req |-> 0, sends |-> <<>>],
     asked |-> <<>>,
     \* Node.Start: the topic the loop variable sub stands at (0: the loop
     \* has not begun; the tasks of the topics up to it are started), and
     \* for every topic's semaphore the handlers that hold a permit,
     \* counted by the topic of their message
     sub |-> 0, handlers |-> <<>>,
     \* the height responses protocolPeerHeights gave back, by peer, and
     \* what commonHash made of them
     collect |-> <<>>, chainCommonHashes |-> [beacon |-> <<>>, shard |-> <<>>],
     \* protocolPeerHeights task by task: the feeder's place in conns and
     \* whether it has returned, hmyPeers closed, what each worker does and
     \* the peer it holds, the workers counter, how often collect was
     \* closed, a send on collect after its close, the collector, the map
     \* reduce, the group's context and first error, g.Wait() returned
     heights |-> [next |-> 1, feeder |-> "run", hmyPeersClosed |-> FALSE,
                  worker |-> <<>>, workers |-> 0, collectClosed |-> 0,
                  sentOnClosed |-> FALSE, collector |-> "run",
                  reduce |-> <<>>, ctxDone |-> FALSE, err |-> "",
                  returned |-> FALSE],
     \* the task that reads SlashChan: where it is, its loop variable
     \* doubleSign, the BroadcastSlash tasks it started that have not read
     \* the variable yet, the records broadcast to the beacon group, the
     \* pending slashes of the beacon chain, and the offenders of the
     \* candidates consensus emitted in a staking epoch
     slashPC |-> "run", doubleSign |-> NoBallot, broadcasting |-> 0,
     slashSent |-> {}, pendingSlashes |-> <<>>, emittedStaking |-> {}]
InitHist == [proposals |-> 0, due |-> 0, faulty |-> 0, finalized |-> {},
             silent |-> {}, viewChanges |-> 0, handled |-> NoBallot]

Init ==
    /\ consensus = InitConsensus
    /\ proposalNewBlock = 1
    /\ commitFinishChan = <<>>
    /\ proposerPC = "run"
    /\ finishPC = "recv"
    /\ finishWake = 0
    /\ isStaking = TRUE
    /\ peer = [chain |-> <<>>, prepared |-> ZeroHash]
    /\ payloadCall = NoPayload
    /\ node = InitNode
    /\ hist = InitHist

\* -------------------------------------------------------------- actions
\* node.proposeNewBlock: a new block on top of the current header
proposeNewBlock ==
    [number |-> HeadNumber(consensus) + 1,
     parent |-> HeadHash(consensus),
     viewID |-> consensus.viewID,
     salt |-> hist.proposals + 1]

\* StartLeaderWork, first task: one turn of the loop
ProposeNewBlock(sendOK) ==
    /\ proposerPC = "run"
    /\ proposalNewBlock > 0
    /\ hist.proposals < MaxProposals
    /\ proposalNewBlock' = proposalNewBlock - 1
    /\ LET newBlock == proposeNewBlock
           due == BlockTime
           r == Announce([consensus EXCEPT !.nextBlockDue = due],
                         newBlock, sendOK)
       IN  IF ~IsLeader(consensus)
           THEN /\ proposerPC' = "dead"
                /\ UNCHANGED <<consensus, hist>>
           ELSE /\ consensus' = r.c
                /\ proposerPC' = IF r.err THEN "dead" ELSE "run"
                /\ hist' = [hist EXCEPT !.proposals = @ + 1, !.due = due]
    /\ UNCHANGED <<commitFinishChan, finishPC, finishWake, isStaking, payloadCall, node, peer>>

\* the consensus loop handles one inbound message
Deliver(msg, faulty) ==
    /\ node.consensusLoop = "run"
    /\ LET r == HandleMessageUpdate(consensus, msg)
       IN  /\ Len(r.c.timers) + Len(commitFinishChan) <= MaxSignals
           /\ Len(r.c.slashChan) <= MaxSlash
           /\ consensus' = r.c
           /\ node' = [node EXCEPT !.consensusLoop =
                                    IF r.panic THEN "panic" ELSE @]
    /\ hist.faulty + faulty <= MaxFaulty
    /\ hist' = [hist EXCEPT !.faulty = @ + faulty]
    /\ UNCHANGED <<proposalNewBlock, commitFinishChan, proposerPC, finishPC,
                   finishWake, isStaking, payloadCall, peer>>

\* onCommit's AfterFunc callback runs: the view-id goes to CommitFinishChan
TimerFire(i) ==
    /\ i \in 1..Len(consensus.timers)
    /\ consensus.timers[i] = 0
    /\ consensus' = [consensus EXCEPT !.timers =
            SubSeq(@, 1, i - 1) \o SubSeq(@, i + 1, Len(@))]
    /\ commitFinishChan' = Append(commitFinishChan, consensus.viewID)
    /\ UNCHANGED <<proposalNewBlock, proposerPC, finishPC, finishWake, isStaking, payloadCall, node, peer, hist>>

\* StartLeaderWork, second task: a signal is received
FinishRecv ==
    /\ finishPC = "recv"
    /\ commitFinishChan # <<>>
    /\ commitFinishChan' = Tail(commitFinishChan)
    /\ node' = [node EXCEPT !.quorumReached = Head(commitFinishChan)]
    /\ IF ~IsLeader(consensus)
       THEN UNCHANGED <<finishPC, finishWake>>
       ELSE IF consensus.nextBlockDue > BufferLimit
       THEN finishPC' = "sleep" /\ finishWake' = BufferSleep
       ELSE finishPC' = "finalize" /\ UNCHANGED finishWake
    /\ UNCHANGED <<consensus, proposalNewBlock, proposerPC, isStaking,
                   payloadCall, peer, hist>>

FinishWake ==
    /\ finishPC = "sleep"
    /\ finishWake = 0
    /\ finishPC' = "finalize"
    /\ UNCHANGED <<consensus, proposalNewBlock, commitFinishChan, proposerPC,
                   finishWake, isStaking, payloadCall, node, peer, hist>>

\* roundDone.Do(key, fn) runs fn unless a call with the same key is in
\* flight; the loop makes one call at a time, so fn always runs
FinishFinalize(ext) ==
    /\ finishPC = "finalize"
    /\ LET r == FinalizeCommits(consensus, ext)
       IN  /\ consensus' = r.c
           /\ finishPC' = IF r.err THEN "dead" ELSE "send"
    /\ hist' = [hist EXCEPT !.finalized = @ \cup {node.quorumReached}]
    /\ UNCHANGED <<proposalNewBlock, commitFinishChan, proposerPC,
                   finishWake, isStaking, payloadCall, node, peer>>

FinishSend ==
    /\ finishPC = "send"
    /\ proposalNewBlock = 0
    /\ proposalNewBlock' = 1
    /\ finishPC' = "setdue"
    /\ UNCHANGED <<consensus, commitFinishChan, proposerPC, finishWake, isStaking, payloadCall, node, peer, hist>>

\* the turn of the loop ends: its received signal goes out of scope
FinishSetDue ==
    /\ finishPC = "setdue"
    /\ consensus' = [consensus EXCEPT !.nextBlockDue = BlockTime]
    /\ finishPC' = "recv"
    /\ node' = [node EXCEPT !.quorumReached = 0]
    /\ UNCHANGED <<proposalNewBlock, commitFinishChan, proposerPC,
                   finishWake, isStaking, payloadCall, peer, hist>>

\* time passes. Times are kept as the seconds left until they are reached
\* (0 once reached); the clock moves on to the next instant at which one
\* of them is reached or the buffer test of StartLeaderWork changes
Elapse(t, d) == IF t > d THEN t - d ELSE 0
Deadlines ==
    ({consensus.nextBlockDue, consensus.nextBlockDue - BufferLimit,
      finishWake, hist.due}
     \cup {consensus.timers[i] : i \in 1..Len(consensus.timers)})
    \cap (1..BlockTime)
\* onPrepared at the validators: PREPARED for the block they signed
\* arrives and its aggregate signature verifies
PeerOnPrepared(m) ==
    /\ m.type = "PREPARED"
    /\ peer.prepared = ZeroHash
    /\ VerifyAggregate(m.payload, m.blockHash)
    /\ \E a \in consensus.sent :
            /\ SignedByValidators(a)
            /\ a.viewID = m.viewID /\ a.blockHash = m.blockHash
    /\ peer' = [peer EXCEPT !.prepared = m.blockHash]
    /\ UNCHANGED <<consensus, proposalNewBlock, commitFinishChan, proposerPC,
                   finishPC, finishWake, isStaking, payloadCall, node, hist>>

\* onCommitted at the validators: the aggregate commit signature meets
\* quorum, the block goes into their chain
PeerOnCommitted(m) ==
    /\ m.type = "COMMITTED"
    /\ m.blockNum = PeerNumber + 1
    /\ VerifyAggregate(m.payload, ConstructCommitPayload(
                            isStaking, m.blockHash, m.blockNum, m.viewID))
    /\ \E a \in consensus.sent :
            /\ a.type = "ANNOUNCE" /\ a.blockHash = m.blockHash
            /\ a.payload.parent = PeerHead
            /\ peer' = [chain |-> Append(peer.chain, a.payload),
                        prepared |-> ZeroHash]
    /\ UNCHANGED <<consensus, proposalNewBlock, commitFinishChan, proposerPC,
                   finishPC, finishWake, isStaking, payloadCall, node, hist>>

\* the block the next leader proposes after a view change: the block the
\* validators hold PREPARED for, a fresh one when they hold none
NewViewBlock ==
    IF peer.prepared = ZeroHash
    THEN [number |-> PeerNumber + 1, parent |-> PeerHead,
          viewID |-> PeerNumber + 1, salt |-> 0]
    ELSE (CHOOSE a \in consensus.sent :
            a.type = "ANNOUNCE" /\ a.blockHash = peer.prepared).payload

\* the validators change view and commit the next leader's block
PeerViewChange ==
    /\ PeerNumber < MaxProposals
    /\ peer' = [chain |-> Append(peer.chain, NewViewBlock),
                prepared |-> ZeroHash]
    /\ UNCHANGED <<consensus, proposalNewBlock, commitFinishChan, proposerPC,
                   finishPC, finishWake, isStaking, payloadCall, node, hist>>

\* HandleIncomingBlocksBySync: the block after the local head, fetched
\* from a peer, is inserted
SyncInsert ==
    /\ \E i \in 1..Len(peer.chain) :
            /\ peer.chain[i].number = HeadNumber(consensus) + 1
            /\ peer.chain[i].parent = HeadHash(consensus)
            /\ consensus' = [consensus EXCEPT
                                !.chain = Append(@, peer.chain[i])]
    /\ UNCHANGED <<proposalNewBlock, commitFinishChan, proposerPC, finishPC,
                   finishWake, isStaking, payloadCall, node, peer, hist>>

\* the steps of the two tasks and of the timers take no time: the clock
\* stands still while one of them can run
Waiting ==
    /\ \A i \in 1..Len(consensus.timers) : consensus.timers[i] > 0
    /\ finishPC \in {"recv", "sleep", "send", "dead"}
    /\ finishPC = "recv" => commitFinishChan = <<>>
    /\ finishPC = "sleep" => finishWake > 0
    /\ finishPC = "send" => proposalNewBlock > 0
    /\ ~(proposerPC = "run" /\ proposalNewBlock > 0
            /\ hist.proposals < MaxProposals)
Tick ==
    /\ Waiting
    /\ Deadlines # {}
    /\ LET d == CHOOSE x \in Deadlines : \A y \in Deadlines : x <= y
       IN  /\ consensus' = [consensus EXCEPT
                    !.nextBlockDue = Elapse(@, d),
                    !.timers = [i \in 1..Len(@) |-> Elapse(@[i], d)]]
           /\ finishWake' = Elapse(finishWake, d)
           /\ hist' = [hist EXCEPT !.due = Elapse(@, d)]
    /\ UNCHANGED <<proposalNewBlock, commitFinishChan, proposerPC, finishPC,
                   isStaking, payloadCall, node, peer>>

\* what the collaborators answer to one FinalizeCommits call: all succeed,
\* or one of them fails
AllOk == [validate1 |-> TRUE, validate2 |-> TRUE, process |-> TRUE,
          send |-> TRUE]
Ext == {AllOk, [AllOk EXCEPT !.validate1 = FALSE],
        [AllOk EXCEPT !.validate2 = FALSE],
        [AllOk EXCEPT !.process = FALSE], [AllOk EXCEPT !.send = FALSE]}

Next ==
    \/ \E sendOK \in BOOLEAN : ProposeNewBlock(sendOK)
    \/ \E msg \in HonestMessages : Deliver(msg, 0)
    \/ \E msg \in ByzantineMessages : Deliver(msg, 1)
    \/ \E i \in 1..MaxSignals : TimerFire(i)
    \/ FinishRecv
    \/ FinishWake
    \/ \E ext \in Ext : FinishFinalize(ext)
    \/ FinishSend
    \/ FinishSetDue
    \/ \E m \in consensus.sent : PeerOnPrepared(m)
    \/ \E m \in consensus.sent : PeerOnCommitted(m)
    \/ PeerViewChange
    \/ SyncInsert
    \/ Tick

Spec == Init /\ [][Next]_vars

\* ------------------------------------------- ConstructCommitPayload alone
\* block hashes (the last one has the 32 bytes of a common.Hash), block
\* numbers and view-ids the function is called with
PayloadHashes == {GenesisHash, BadHash, <<1, 0, 1, 0>>, [i \in 1..32 |-> i]}
PayloadNumbers == {0, 1, 255, 256, 66049, 2147483647}

InitPayload ==
    /\ consensus = InitConsensus
    /\ proposalNewBlock = 1
    /\ commitFinishChan = <<>>
    /\ proposerPC = "run"
    /\ finishPC = "recv"
    /\ finishWake = 0
    /\ isStaking \in BOOLEAN
    /\ peer = [chain |-> <<>>, prepared |-> ZeroHash]
    /\ payloadCall \in [blockHash : PayloadHashes, blockNum : PayloadNumbers,
                    viewID : PayloadNumbers, out : {<<>>}]
    /\ node = InitNode
    /\ hist = InitHist

CallConstructCommitPayload ==
    /\ payloadCall.out = <<>>
    /\ payloadCall' = [payloadCall EXCEPT !.out = ConstructCommitPayload(
                        isStaking, payloadCall.blockHash, payloadCall.blockNum,
                        payloadCall.viewID)]
    /\ UNCHANGED <<consensus, proposalNewBlock, commitFinishChan, proposerPC,
                   finishPC, finishWake, isStaking, peer, node, hist>>

NextPayload == CallConstructCommitPayload

SpecPayload == InitPayload /\ [][NextPayload]_vars

\* ------------------------------------------------------------------ claims
\* the unsigned integer a little-endian byte string encodes
RECURSIVE UintLE(_)
UintLE(bytes) ==
    IF bytes = <<>> THEN 0 ELSE Head(bytes) + 256 * UintLE(Tail(bytes))

IsBytes(s) == \A i \in 1..Len(s) : s[i] \in 0..255

\* the block FinalizeCommits is called for, and the step in which
\* FinalizeCommits puts a block into the chain
FinalizedBlock == GetBlockByHash(consensus, consensus.blockHash)
CommitStep ==
    /\ finishPC = "finalize"
    /\ finishPC' # "finalize"
    /\ consensus'.chain # consensus.chain

\* C1: at most one block hash is ever committed at a block number, on this
\* node and across this node and the honest validators
C1_OneHashPerNumber ==
    /\ \A i, j \in 1..Len(consensus.chain) :
            consensus.chain[i].number = consensus.chain[j].number
            => Hash(consensus.chain[i]) = Hash(consensus.chain[j])
    /\ \A i \in 1..Len(consensus.chain), j \in 1..Len(peer.chain) :
            consensus.chain[i].number = peer.chain[j].number
            => Hash(consensus.chain[i]) = Hash(peer.chain[j])

\* C2: a block that FinalizeCommits commits has the chain head as its
\* parent at the moment of the commit, and is the chain head right after
C2_CommitExtendsHead ==
    [][CommitStep =>
        LET b == FinalizedBlock
        IN  /\ b # NoBlock
            /\ b.number > 0
            /\ b.parent = HeadHash(consensus)
            /\ Len(consensus'.chain) = Len(consensus.chain) + 1
            /\ HeadHash(consensus') = Hash(b)
            /\ HeadNumber(consensus') = b.number]_vars

\* FinalizeCommits has just committed the block that is now the head
C2_Witness ==
    /\ finishPC = "send"
    /\ consensus.chain # <<>>
    /\ \E m \in consensus.msgs :
            /\ m.type = "COMMITTED"
            /\ m.blockHash = HeadHash(consensus)
            /\ m.blockNum = HeadNumber(consensus)

\* a message is a second vote of its sender in phase p: the sender holds a
\* ballot for the same block number and view-id on another block hash
IsSecondVote(c, msg, p) ==
    /\ msg.type = (IF p = "Prepare" THEN "PREPARE" ELSE "COMMIT")
    /\ msg.shardID = c.shardID
    /\ msg.sender \in Committee
    /\ ReadBallot(c, p, msg.sender) # NoBallot
    /\ ReadBallot(c, p, msg.sender).num = msg.blockNum
    /\ ReadBallot(c, p, msg.sender).view = msg.viewID
    /\ ReadBallot(c, p, msg.sender).hash # msg.blockHash

\* the step is the consensus loop handling msg
Handles(msg) == Deliver(msg, IF msg \in ByzantineMessages THEN 1 ELSE 0)

\* the slash records on two hashes signed by one voter
RecordsOf(c, k, h1, h2) ==
    {i \in 1..Len(c.slashChan) :
        /\ c.slashChan[i].offender = k
        /\ {c.slashChan[i].signed.hash, c.slashChan[i].doubleSigned.hash}
                = {h1, h2}}

\* C3: when a voter that holds a ballot sends a second PREPARE or COMMIT
\* at the same block number and view-id on another block hash, the signer
\* count of the phase does not grow and a slash candidate goes out with the
\* voter as offender, both signed hashes and the leader's coinbase
C3_SecondVoteSlashed ==
    [][\A msg \in HonestMessages \cup ByzantineMessages, p \in Phases :
        (IsSecondVote(consensus, msg, p) /\ Handles(msg)) =>
            /\ SignersCount(consensus', p) = SignersCount(consensus, p)
            /\ Len(consensus'.slashChan) = Len(consensus.slashChan) + 1
            /\ LET r == consensus'.slashChan[Len(consensus'.slashChan)]
               IN  /\ r.offender = msg.sender
                   /\ r.signed.hash = ReadBallot(consensus, p, msg.sender).hash
                   /\ r.doubleSigned.hash = msg.blockHash
                   /\ r.beneficiary = SelfCoinbase]_vars

\* C4: for a pair of conflicting ballots of one voter exactly one slash
\* record with the two signed hashes is produced, however often and in
\* whatever order the conflicting messages are delivered
C4_OneSlashRecordPerPair ==
    [][\A msg \in HonestMessages \cup ByzantineMessages, p \in Phases :
        (IsSecondVote(consensus, msg, p) /\ Handles(msg)) =>
            Cardinality(RecordsOf(consensus', msg.sender,
                ReadBallot(consensus, p, msg.sender).hash, msg.blockHash))
            = 1]_vars

\* C5 as amended: when block n is committed the log is left with no
\* message and no block below n, and with every message at or above n
\* that was logged
C5_LogWatermark ==
    [][CommitStep =>
        LET n == FinalizedBlock.number
            logged == consensus.msgs \cup {Construct(consensus, "COMMITTED")}
        IN  /\ \A m \in consensus'.msgs : m.blockNum >= n
            /\ \A b \in consensus'.blocks : b.number >= n
            /\ \A m \in logged : m.blockNum >= n => m \in consensus'.msgs]_vars

\* C5 as claimed: the watermark is n - 1
C5_LogWatermarkMinusOne ==
    [][CommitStep =>
        LET n == FinalizedBlock.number
            logged == consensus.msgs \cup {Construct(consensus, "COMMITTED")}
        IN  /\ \A m \in consensus'.msgs : m.blockNum >= n - 1
            /\ \A b \in consensus'.blocks : b.number >= n - 1
            /\ \A m \in logged :
                    m.blockNum >= n - 1 => m \in consensus'.msgs]_vars

\* block 2 has been committed, and the messages of block 1 are gone
C5_Witness ==
    /\ finishPC = "send"
    /\ HeadNumber(consensus) = 2
    /\ consensus.blockNum = 3
    /\ \E m \in consensus.msgs : m.type = "COMMITTED" /\ m.blockNum = 2
    /\ \A m \in consensus.msgs : m.blockNum >= 2

\* C6: ConstructCommitPayload returns the 8-byte little-endian block
\* number, then the block hash, then the 8-byte little-endian view-id
\* exactly when the epoch is a staking epoch; the pre-staking payload is a
\* strict prefix of the staking payload for the same inputs
C6_CommitPayloadLayout ==
    payloadCall.out # <<>> =>
        LET out == payloadCall.out
            n == Len(payloadCall.blockHash)
            staking == ConstructCommitPayload(TRUE, payloadCall.blockHash,
                            payloadCall.blockNum, payloadCall.viewID)
            preStaking == ConstructCommitPayload(FALSE, payloadCall.blockHash,
                            payloadCall.blockNum, payloadCall.viewID)
        IN  /\ IsBytes(out)
            /\ Len(out) = IF isStaking THEN 8 + n + 8 ELSE 8 + n
            /\ UintLE(SubSeq(out, 1, 8)) = payloadCall.blockNum
            /\ SubSeq(out, 9, 8 + n) = payloadCall.blockHash
            /\ isStaking =>
                UintLE(SubSeq(out, 9 + n, 16 + n)) = payloadCall.viewID
            /\ Len(preStaking) < Len(staking)
            /\ SubSeq(staking, 1, Len(preStaking)) = preStaking

\* a staking-epoch payload of a block number and a view-id that fill more
\* than one byte has been constructed
C6_Witness ==
    /\ payloadCall.out # <<>>
    /\ isStaking
    /\ payloadCall.blockNum > 255
    /\ payloadCall.viewID > 255
    /\ Len(payloadCall.blockHash) = 32

\* C7: a new Consensus has view-id 0, and the view-id changes only by
\* increasing, in a step that commits a block (the leader handles no
\* NEWVIEW)
C7_ViewIDMonotonic ==
    /\ consensus.viewID = 0
    /\ [][consensus'.viewID # consensus.viewID =>
            /\ consensus'.viewID > consensus.viewID
            /\ Len(consensus'.chain) = Len(consensus.chain) + 1]_vars

\* the PREPAREs on the leader's block were counted up to quorum (onPrepare
\* counts none after that), every member's COMMIT was counted, and every
\* ballot is a vote on that block
FullySigned(c) ==
    /\ c.blockHash # ZeroHash
    /\ IsQuorumAchieved(c, "Prepare")
    /\ c.commitBitmap = Committee
    /\ \A k \in Committee : c.ballots["Commit"][k] # NoBallot
    /\ \A p \in Phases, k \in Committee :
            c.ballots[p][k] # NoBallot => c.ballots[p][k].hash = c.blockHash

\* FinalizeCommits runs at the end of a fault-free round: no faulty
\* message was sent, every vote is in, the log holds ANNOUNCE and PREPARED
\* of the block and COMMITTED is still to come, the collaborators succeed
\* and the head is still the block's parent
FaultFreeFinalize ==
    /\ hist.faulty = 0
    /\ FullySigned(consensus)
    /\ GetMessagesByTypeSeq(consensus, "COMMITTED", consensus.blockNum) = {}
    /\ FinalizedBlock # NoBlock
    /\ FinalizedBlock.parent = HeadHash(consensus)
    /\ FinishFinalize(AllOk)

\* what C8 says of the round apart from the view-id: the block is
\* committed, the head advances by one, COMMITTED goes out with one bit of
\* the commit bitmap for every committee member
RoundCommitted ==
    /\ finishPC' = "send"
    /\ consensus'.chain = Append(consensus.chain, FinalizedBlock)
    /\ HeadNumber(consensus') = HeadNumber(consensus) + 1
    /\ HeadHash(consensus') = consensus.blockHash
    /\ \E m \in consensus'.sent \ consensus.sent :
            /\ m.type = "COMMITTED"
            /\ m.blockHash = consensus.blockHash
            /\ m.payload.bitmap = Committee
            /\ Cardinality(m.payload.bitmap) = NumMembers

\* C8 as amended: in a fault-free round with every PREPARE and COMMIT in,
\* the block is committed, the head advances by exactly one, the commit
\* bitmap has one bit for every committee member, and the view-id after
\* the commit is the view-id of the round plus one
C8_FaultFreeRound ==
    [][FaultFreeFinalize =>
        /\ RoundCommitted
        /\ consensus.viewID = FinalizedBlock.viewID
        /\ consensus'.viewID = FinalizedBlock.viewID + 1]_vars

\* C8 as claimed: the view-id after the commit is the view-id before the
\* round
C8_ViewIDUnchanged ==
    [][FaultFreeFinalize =>
        /\ RoundCommitted
        /\ consensus.viewID = FinalizedBlock.viewID
        /\ consensus'.viewID = FinalizedBlock.viewID]_vars

\* a fault-free round has been finalized: COMMITTED with the full bitmap
\* is out, its block is the head, the view-id is one past the round's
C8_Witness ==
    /\ finishPC = "send"
    /\ hist.faulty = 0
    /\ \E m \in consensus.sent :
            /\ m.type = "COMMITTED"
            /\ m.payload.bitmap = Committee
            /\ m.blockHash = HeadHash(consensus)
            /\ m.blockNum = HeadNumber(consensus)
            /\ consensus.viewID = m.viewID + 1

\* finalization of the current block is on its way: a timer of onCommit
\* is pending, a commit-finish signal is queued, or the finish task is
\* about to call FinalizeCommits
FinalizationScheduled ==
    \/ consensus.timers # <<>>
    \/ commitFinishChan # <<>>
    \/ finishPC \in {"sleep", "finalize"}

\* C9: when the Commit tally has reached quorum without every member's
\* signature, finalization of the block is scheduled
C9_QuorumFinalizes ==
    (/\ consensus.blockHash # ZeroHash
     /\ finishPC = "recv"
     /\ IsQuorumAchieved(consensus, "Commit")
     /\ ~IsAllSigsCollected(consensus))
    => FinalizationScheduled

\* C10: FinalizeCommits is not invoked for a block before the time that
\* was stored as next_block_due when the block was announced
C10_FinalizeNotBeforeDue ==
    (finishPC = "finalize" /\ consensus.blockHash # ZeroHash)
    => hist.due = 0

\* the finish task runs FinalizeCommits for the signal it received
FinalizeStep == finishPC = "finalize" /\ finishPC' # "finalize"

\* ------------------------------------------------- the consensus loop
\* The loop with every kind of inbound message: the validators' votes, the
\* messages of the leader the validators elected in a view change, view
\* change messages, and a message that carries a new block. Sends and
\* the collaborators of FinalizeCommits succeed.
MaxViewChanges == 1
\* blocks the leader proposes, and blocks the validators commit under the
\* leader they elected, in a run of the loop
MaxLoopBlocks == 1
NextLeader == Self + 1

\* the view change timer fires: the pending block was not committed in
\* time, the node raises its view-id and goes to ViewChanging mode
StartViewChange ==
    /\ consensus.mode = "Normal"
    /\ consensus.blockHash # ZeroHash
    /\ consensus.nextBlockDue = 0
    /\ hist.viewChanges < MaxViewChanges
    /\ consensus' = [consensus EXCEPT !.mode = "ViewChanging",
                                      !.viewID = @ + 1]
    /\ hist' = [hist EXCEPT !.viewChanges = @ + 1]
    /\ UNCHANGED <<proposalNewBlock, commitFinishChan, proposerPC, finishPC,
                   finishWake, isStaking, payloadCall, node, peer>>

\* the blocks the validators committed under the leader they elected
NewLeaderBlocks ==
    {peer.chain[i] : i \in 1..Len(peer.chain)}
        \ {a.payload : a \in {m \in consensus.sent : m.type = "ANNOUNCE"}}

\* what the elected leader sent in the round of block b
NewLeaderMessages(b) ==
    LET aggregate(over) == [sigs |-> {Sign(k, over) : k \in Validators},
                            bitmap |-> Validators]
        message(t, payload) ==
            [type |-> t, blockNum |-> b.number, viewID |-> b.viewID,
             blockHash |-> Hash(b), sender |-> NextLeader,
             payload |-> payload, shardID |-> 0]
    IN  {message("ANNOUNCE", b),
         message("PREPARED", aggregate(Hash(b))),
         message("COMMITTED", aggregate(ConstructCommitPayload(
                                isStaking, Hash(b), b.number, b.viewID)))}

\* VIEWCHANGE of a validator and NEWVIEW of the elected leader for the
\* node's view-id
ViewChangeMessages ==
    LET v == IF consensus.mode = "ViewChanging" THEN consensus.viewID
             ELSE consensus.viewID + 1
    IN  {[type |-> t, blockNum |-> consensus.blockNum, viewID |-> v,
          blockHash |-> ZeroHash, sender |-> NextLeader,
          payload |-> Sign(NextLeader, v), shardID |-> 0] :
            t \in {"VIEWCHANGE", "NEWVIEW"}}

\* a message whose request is a new block
NewBlockMessages ==
    {[type |-> "BROADCASTED_NEW_BLOCK", blockNum |-> consensus.blockNum,
      viewID |-> consensus.viewID, blockHash |-> ZeroHash,
      sender |-> NextLeader, payload |-> NoBlock, shardID |-> 0,
      newBlock |-> [number |-> HeadNumber(consensus) + 1,
                    parent |-> HeadHash(consensus),
                    viewID |-> consensus.viewID, salt |-> 0]]}

\* votes of a validator on the pending block in the node's own view
CurrentViewVotes ==
    LET c == consensus
        vote(t, over) ==
            [type |-> t, blockNum |-> c.blockNum, viewID |-> c.viewID,
             blockHash |-> c.blockHash, sender |-> NextLeader,
             payload |-> Sign(NextLeader, over), shardID |-> 0]
    IN  IF c.blockHash = ZeroHash THEN {}
        ELSE {vote("PREPARE", c.blockHash),
              vote("COMMIT", ConstructCommitPayload(isStaking, c.blockHash,
                                                    c.blockNum, c.viewID))}

LoopMessages ==
    HonestMessages \cup CurrentViewVotes
        \cup UNION {NewLeaderMessages(b) : b \in NewLeaderBlocks}
        \cup ViewChangeMessages \cup NewBlockMessages

\* the consensus loop handles one inbound message; hist.handled keeps the
\* message's type and what HandleMessageUpdate returned
Receive(msg) ==
    /\ node.consensusLoop = "run"
    /\ LET r == HandleMessageUpdate(consensus, msg)
       IN  /\ Len(r.c.timers) + Len(commitFinishChan) <= MaxSignals
           /\ consensus' = r.c
           /\ node' = [node EXCEPT !.consensusLoop =
                                    IF r.panic THEN "panic" ELSE @]
           /\ hist' = [hist EXCEPT !.handled =
                        [type |-> msg.type,
                         result |-> IF r.panic THEN "panic"
                                    ELSE IF r.err THEN "error" ELSE "nil"]]
    /\ UNCHANGED <<proposalNewBlock, commitFinishChan, proposerPC, finishPC,
                   finishWake, isStaking, payloadCall, peer>>

\* a panic ends the process: nothing runs after it
Running == node.consensusLoop = "run"

NextLoop ==
    \/ Running /\ hist.proposals < MaxLoopBlocks /\ ProposeNewBlock(TRUE)
    \/ \E msg \in LoopMessages : Receive(msg)
    \/ Running /\ StartViewChange
    \/ Running /\ \E i \in 1..MaxSignals : TimerFire(i)
    \/ Running /\ FinishRecv
    \/ Running /\ FinishFinalize(AllOk)
    \/ Running /\ FinishSend
    \/ Running /\ FinishSetDue
    \/ Running /\ \E m \in consensus.sent : PeerOnPrepared(m)
    \/ Running /\ \E m \in consensus.sent : PeerOnCommitted(m)
    \/ Running /\ PeerNumber < MaxLoopBlocks /\ PeerViewChange
    \/ Running /\ Tick

SpecLoop == Init /\ [][NextLoop]_vars

\* C13: while the mode is ViewChanging an inbound PREPARE or COMMIT is
\* dropped with an error and changes nothing of the consensus state (no
\* ballot, no bitmap bit, the same phase), and an ANNOUNCE, PREPARED or
\* COMMITTED still reaches its handler and is logged
C13_ViewChangingDropsVotes ==
    [][\A msg \in LoopMessages :
        (consensus.mode = "ViewChanging" /\ Receive(msg)) =>
            /\ msg.type \in {"PREPARE", "COMMIT"} =>
                    consensus' = consensus /\ hist'.handled.result = "error"
            /\ msg.type \in {"ANNOUNCE", "PREPARED", "COMMITTED"} =>
                    msg \in consensus'.msgs]_vars

\* a COMMIT was dropped in ViewChanging mode, with the elected leader's
\* ANNOUNCE in the log
C13_Witness ==
    /\ consensus.mode = "ViewChanging"
    /\ hist.handled = [type |-> "COMMIT", result |-> "error"]
    /\ \E m \in consensus.msgs :
            m.type = "ANNOUNCE" /\ m.sender = NextLeader

\* a vote the leader must not count: its signature does not verify over
\* what the vote's phase signs, or its view-id or block number is not the
\* leader's; or a message for another shard
SignedBytes(c, msg) ==
    IF msg.type = "PREPARE" THEN c.blockHash
    ELSE ConstructCommitPayload(isStaking, msg.blockHash, msg.blockNum,
                                c.viewID)
InvalidMessage(c, msg) ==
    \/ msg.shardID # c.shardID
    \/ /\ msg.type \in {"PREPARE", "COMMIT"}
       /\ \/ msg.viewID # c.viewID
          \/ msg.blockNum # c.blockNum
          \/ msg.payload.signer # msg.sender
          \/ msg.payload.over # SignedBytes(c, msg)

\* C14: a PREPARE or COMMIT with a signature that does not verify or with
\* another view-id or block number than the leader's, and a consensus
\* message of another shard, leave the phase, the block number, the
\* view-id, the ballots and the bitmaps as they were
C14_InvalidVoteDropped ==
    \A msg \in HonestMessages \cup ByzantineMessages :
        InvalidMessage(consensus, msg) =>
            LET after == HandleMessageUpdate(consensus, msg).c
            IN  /\ after.phase = consensus.phase
                /\ after.blockNum = consensus.blockNum
                /\ after.viewID = consensus.viewID
                /\ after.ballots = consensus.ballots
                /\ after.prepareBitmap = consensus.prepareBitmap
                /\ after.commitBitmap = consensus.commitBitmap

\* the Byzantine member's message was handled in the first round before
\* the prepare quorum and left no ballot and no slash candidate: it was
\* one of the invalid ones
C14_Witness ==
    /\ hist.faulty = 1
    /\ consensus.blockNum = 1
    /\ consensus.blockHash # ZeroHash
    /\ ~IsQuorumAchieved(consensus, "Prepare")
    /\ SignersCount(consensus, "Prepare") = 2
    /\ \A b \in Byzantine, p \in Phases :
            ReadBallot(consensus, p, b) = NoBallot
    /\ consensus.slashChan = <<>>

\* FinalizeCommits returned an error and no block went into the chain
FailedCommit ==
    /\ FinalizeStep
    /\ finishPC' = "dead"
    /\ consensus'.chain = consensus.chain

\* C15: when committing a block fails (parent hash mismatch, body
\* validation or post-consensus processing fails) the block number, the
\* view-id, the leader key, the block hash and the phase are unchanged,
\* and the block number is still the chain head number plus one
C15_FailedCommitStaysPut ==
    [][FailedCommit =>
        /\ consensus'.blockNum = consensus.blockNum
        /\ consensus'.viewID = consensus.viewID
        /\ consensus'.leaderPubKey = consensus.leaderPubKey
        /\ consensus'.blockHash = consensus.blockHash
        /\ consensus'.phase = consensus.phase
        /\ consensus'.blockNum = HeadNumber(consensus') + 1]_vars

\* C16: no inbound message ends the consensus loop: HandleMessageUpdate
\* returns nil or an error for every message, of whatever type and
\* content, and the loop goes on handling messages
C16_LoopSurvives ==
    /\ node.consensusLoop = "run"
    /\ hist.handled # NoBallot => hist.handled.result \in {"nil", "error"}

\* ------------------------------------------------------------- progress
\* Runs of the leader in which nothing fails: every send succeeds, every
\* collaborator of FinalizeCommits succeeds, no member is Byzantine. The
\* members of hist.silent never send a message; every other member's
\* messages are delivered, and the tasks and timers keep running.
Silent == {{}, {NumMembers}}

InitLive ==
    /\ consensus = InitConsensus
    /\ proposalNewBlock = 1
    /\ commitFinishChan = <<>>
    /\ proposerPC = "run"
    /\ finishPC = "recv"
    /\ finishWake = 0
    /\ isStaking = TRUE
    /\ peer = [chain |-> <<>>, prepared |-> ZeroHash]
    /\ payloadCall = NoPayload
    /\ node = InitNode
    /\ hist \in {[InitHist EXCEPT !.silent = s] : s \in Silent}

\* a live member's vote reaches the leader
DeliverLive(msg) == msg.sender \notin hist.silent /\ Deliver(msg, 0)

\* the next leader runs the same onCommit: it commits its block once every
\* member's COMMIT is in, so with no member silent
ViewChangeLive == hist.silent = {} /\ PeerViewChange

NextLive ==
    \/ ProposeNewBlock(TRUE)
    \/ \E msg \in HonestMessages : DeliverLive(msg)
    \/ \E i \in 1..MaxSignals : TimerFire(i)
    \/ FinishRecv
    \/ FinishWake
    \/ FinishFinalize(AllOk)
    \/ FinishSend
    \/ FinishSetDue
    \/ \E m \in consensus.sent : PeerOnPrepared(m)
    \/ \E m \in consensus.sent : PeerOnCommitted(m)
    \/ ViewChangeLive
    \/ SyncInsert
    \/ Tick

SpecLive == InitLive /\ [][NextLive]_vars /\ WF_vars(NextLive)

\* C12: with more than 2/3 of the committee live (three members of four)
\* and every message of a live member delivered, a new block is eventually
\* committed, also when the remaining member stays silent
C12_BlockEventuallyCommitted == <>(HeadNumber(consensus) > 0)

\* C11: FinalizeCommits is executed at most once for a (view-id, shard-id)
\* key, however many commit-finish signals arrive with that key (the node
\* serves one shard, so the key is the view-id of the signal)
C11_FinalizeOncePerKey ==
    [][FinalizeStep => node.quorumReached \notin hist.finalized]_vars

\* ------------------------------------------------------------------ sync
\* peers the host is connected to
NumSyncPeers == 7
\* height of the highest block a peer has
MaxHeight == 2
\* sync rounds in a run
MaxRounds == 2
\* blocks the incoming-blocks channel holds before a send blocks
MaxQueue == 2
\* hmyConns[:7]: the connections whose heights are probed
ProbeLimit == 7
\* shard.BeaconChainShardID
BeaconChainShardID == 0

\* the chains of the network: the forks part after the genesis block
RECURSIVE ForkBlock(_, _)
ForkBlock(f, n) ==
    [number |-> n,
     parent |-> IF n = 1 THEN GenesisHash ELSE Hash(ForkBlock(f, n - 1)),
     viewID |-> n, salt |-> f]
ForkChain(f, h) == [n \in 1..h |-> ForkBlock(f, n)]
GenesisBlock == [number |-> 0, parent |-> ZeroHash, viewID |-> 0, salt |-> 0]

\* BlockChain.CurrentHeader().Number(), .Hash(), GetBlockByNumber
CurrentNumber(chain) == Len(chain)
CurrentHash(chain) == HeadHash([chain |-> chain])
GetBlockByNumber(chain, n) == IF n = 0 THEN GenesisBlock ELSE chain[n]

\* a node as the sync server sees it: node.Blockchain() is the chain of
\* the node's shard, node.Beaconchain() the chain of the beacon shard
ThisNode ==
    [shardID |-> consensus.shardID,
     blockchain |-> consensus.chain,
     beaconchain |-> IF consensus.shardID = BeaconChainShardID
                     THEN consensus.chain ELSE node.beaconchain]
\* the peer p, a node of this node's shard
RemoteNode(p) ==
    LET chain == ForkChain(node.remote[p].fork, node.remote[p].height)
    IN  [shardID |-> consensus.shardID, blockchain |-> chain,
         beaconchain |-> IF consensus.shardID = BeaconChainShardID
                         THEN chain ELSE node.beaconchain]

errDoNotHaveDesiredBlockNum == "do not have block num"
NoResponse == [none |-> TRUE]

syncRespBlockHeightHandler(n, msg) ==
    [resp |-> [type |-> "SYNC_RESPONSE_BLOCK_HEIGHT",
               shardID |-> n.shardID,
               beaconHeight |-> CurrentNumber(n.beaconchain),
               beaconHash |-> CurrentHash(n.beaconchain),
               shardHeight |-> CurrentNumber(n.blockchain),
               shardHash |-> CurrentHash(n.blockchain)],
     err |-> ""]

syncRespBlockHeaderHandler(n, msg) ==
    LET desiredBlockNum == msg.height
        chain == IF msg.shardID = BeaconChainShardID THEN n.beaconchain
                 ELSE n.blockchain
        latest == CurrentNumber(chain)
    IN  IF desiredBlockNum > latest
        THEN [resp |-> NoResponse, err |-> errDoNotHaveDesiredBlockNum]
        ELSE [resp |-> [type |-> "SYNC_RESPONSE_BLOCK_HEADER",
                        headers |-> <<GetBlockByNumber(chain,
                                                       desiredBlockNum)>>],
              err |-> ""]

\* the handler that answers with the current block whatever the height
syncRespBlockHandler_Current(n, msg) ==
    LET desiredBlockNum == msg.height
        chain == IF msg.shardID = BeaconChainShardID THEN n.beaconchain
                 ELSE n.blockchain
        latest == CurrentNumber(chain)
    IN  IF desiredBlockNum > latest
        THEN [resp |-> NoResponse, err |-> errDoNotHaveDesiredBlockNum]
        ELSE [resp |-> [type |-> "SYNC_RESPONSE_BLOCK",
                        blocks |-> <<GetBlockByNumber(chain, latest)>>],
              err |-> ""]

syncRespBlockHandler(n, msg) ==
    LET desiredBlockNum == msg.height
        chain == IF msg.shardID = BeaconChainShardID THEN n.beaconchain
                 ELSE n.blockchain
        latest == CurrentNumber(chain)
    IN  IF desiredBlockNum > latest
        THEN [resp |-> NoResponse, err |-> errDoNotHaveDesiredBlockNum]
        ELSE [resp |-> [type |-> "SYNC_RESPONSE_BLOCK",
                        blocks |-> <<GetBlockByNumber(chain,
                                                      desiredBlockNum)>>],
              err |-> ""]

\* handleNewMessage, one request: a message type without a handler and a
\* handler's error end the stream with nothing written; otherwise the
\* response is written
handleNewMessage(n, req) ==
    LET r == CASE req.type = "SYNC_REQUEST_BLOCK_HEIGHT" ->
                    syncRespBlockHeightHandler(n, req)
               [] req.type = "SYNC_REQUEST_BLOCK_HEADER" ->
                    syncRespBlockHeaderHandler(n, req)
               [] req.type = "SYNC_REQUEST_BLOCK" ->
                    syncRespBlockHandler(n, req)
               [] OTHER ->
                    [resp |-> NoResponse, err |-> "cant receive this message"]
    IN  [written |-> IF r.err = "" THEN r.resp ELSE NoResponse,
         err |-> r.err]

\* the comparison commonHash gives to sort.SliceStable: the cluster with
\* more peers comes first
less_Ascending(a, b) ==
    Cardinality(a.peersWithIt) < Cardinality(b.peersWithIt)
less(a, b) ==
    Cardinality(a.peersWithIt) > Cardinality(b.peersWithIt)

\* sort.SliceStable: elements neither of which is less than the other
\* keep the order they came in
RECURSIVE InsertStable(_, _)
InsertStable(sorted, x) ==
    IF sorted = <<>> THEN <<x>>
    ELSE IF less(x, Head(sorted)) THEN <<x>> \o sorted
    ELSE <<Head(sorted)>> \o InsertStable(Tail(sorted), x)
RECURSIVE SliceStable(_)
SliceStable(s) ==
    IF s = <<>> THEN <<>>
    ELSE InsertStable(SliceStable(SubSeq(s, 1, Len(s) - 1)), s[Len(s)])

\* the counters commonHash fills in its loop over the responses: for every
\* hash reported, the peers that reported it
hashCounters(collect, field) ==
    {[hash |-> h,
      peersWithIt |-> {p \in DOMAIN collect : collect[p][field] = h}] :
        h \in {collect[p][field] : p \in DOMAIN collect}}

\* the orders in which a range over a map can give its entries
MapOrders(S) ==
    {o \in [1..Cardinality(S) -> S] :
        \A i, j \in 1..Cardinality(S) : i # j => o[i] # o[j]}

\* commonHash: the responses grouped by beacon tip hash and by shard tip
\* hash, each list sorted by sort.SliceStable; the peers of a cluster are
\* kept as a set
commonHash(collect) ==
    LET beaconCounters == hashCounters(collect, "beaconHash")
        shardCounters == hashCounters(collect, "shardHash")
    IN  {[beacon |-> SliceStable(b), shard |-> SliceStable(s)] :
            b \in MapOrders(beaconCounters), s \in MapOrders(shardCounters)}

\* BlockChain.InsertChain of one block: the block goes in when it extends
\* the head
InsertChain_Unchecked(chain, blk) == [chain |-> Append(chain, blk), err |-> FALSE]
InsertChain(chain, blk) ==
    IF blk.parent = CurrentHash(chain) /\ blk.number = CurrentNumber(chain) + 1
    THEN [chain |-> Append(chain, blk), err |-> FALSE]
    ELSE [chain |-> chain, err |-> TRUE]

syncVars == <<proposalNewBlock, commitFinishChan, proposerPC, finishPC,
              finishWake, isStaking, payloadCall, peer, hist>>

\* syncFromHMYPeersIfNeeded up to the loop over the clusters: the heights
\* of hmyConns[:7] are probed and grouped; fewer than seven connections
\* make the slice expression or the probe of a nil connection panic
SyncProbe ==
    /\ node.syncPC = "idle"
    /\ node.rounds < MaxRounds
    /\ IF Len(node.conns) < ProbeLimit
       THEN node' = [node EXCEPT !.syncPC = "panic", !.rounds = @ + 1]
       ELSE LET collect == [p \in 1..ProbeLimit |->
                    syncRespBlockHeightHandler(
                        RemoteNode(node.conns[p]), NoResponse).resp]
            IN  \E chainCommonHashes \in commonHash(collect) :
                    node' = [node EXCEPT
                        !.syncPC = "request",
                        !.rounds = @ + 1,
                        !.clusters =
                            [i \in DOMAIN chainCommonHashes.shard |->
                                {node.conns[p] : p \in
                                    chainCommonHashes.shard[i].peersWithIt}],
                        !.start = CurrentNumber(ThisNode.blockchain),
                        !.requests = {}]
    /\ UNCHANGED <<consensus, syncVars>>

\* one turn of the loop over the clusters: a peer of the cluster is asked
\* for the block after the height the call started from, and the block
\* goes to the incoming-blocks channel; sendOK: the peer could be reached
SyncRequest(chosen, sendOK) ==
    /\ node.syncPC = "request"
    /\ node.clusters # <<>>
    /\ chosen \in Head(node.clusters)
    /\ LET req == [type |-> "SYNC_REQUEST_BLOCK",
                   shardID |-> consensus.shardID,
                   height |-> node.start + 1]
           reply == handleNewMessage(RemoteNode(chosen), req)
           sent == [peer |-> chosen, height |-> req.height,
                    cluster |-> Head(node.clusters),
                    head |-> CurrentNumber(ThisNode.blockchain)]
       IN  IF ~sendOK
           THEN node' = [node EXCEPT !.syncPC = "idle", !.clusters = <<>>]
           ELSE IF reply.err # ""
           THEN node' = [node EXCEPT !.syncPC = "idle", !.clusters = <<>>,
                                     !.requests = @ \cup {sent}]
           ELSE /\ Len(node.incomingSyncingBlocks) < MaxQueue
                /\ node' = [node EXCEPT
                        !.requests = @ \cup {sent},
                        !.incomingSyncingBlocks =
                            Append(@, reply.written.blocks[1]),
                        !.clusters = Tail(@),
                        !.syncPC = IF Tail(node.clusters) = <<>>
                                   THEN "idle" ELSE "request"]
    /\ UNCHANGED <<consensus, syncVars>>

\* the context is done while the call waits to send into the channel
SyncCancel ==
    /\ node.syncPC = "request"
    /\ Len(node.incomingSyncingBlocks) = MaxQueue
    /\ node' = [node EXCEPT !.syncPC = "idle", !.clusters = <<>>]
    /\ UNCHANGED <<consensus, syncVars>>

\* HandleIncomingBlocksBySync, one turn: the next block of the channel is
\* given to InsertChain; an error ends the task
HandleIncomingBlocksBySync ==
    /\ node.insertLoop = "run"
    /\ node.incomingSyncingBlocks # <<>>
    /\ LET blk == Head(node.incomingSyncingBlocks)
           r == InsertChain(IF consensus.shardID = BeaconChainShardID
                            THEN ThisNode.beaconchain
                            ELSE ThisNode.blockchain, blk)
       IN  /\ consensus' = [consensus EXCEPT !.chain = r.chain]
           /\ node' = [node EXCEPT
                    !.incomingSyncingBlocks = Tail(@),
                    !.insertLoop = IF r.err THEN "dead" ELSE "run"]
    /\ UNCHANGED syncVars

\* the requests peers send to this node's sync server
ServerRequests ==
    {[type |-> t, shardID |-> sh, height |-> h] :
        t \in {"SYNC_REQUEST_BLOCK_HEIGHT", "SYNC_REQUEST_BLOCK_HEADER",
               "SYNC_REQUEST_BLOCK"},
        sh \in {BeaconChainShardID, BeaconChainShardID + 1},
        h \in 0..MaxHeight + 1}

\* handleNewMessage at this node: one request of a peer is served
Serve(req) ==
    /\ node' = [node EXCEPT !.served =
                    [req |-> req, out |-> handleNewMessage(ThisNode, req)]]
    /\ UNCHANGED <<consensus, syncVars>>

\* the peers' tips: the first k connections are on one fork, the others on
\* another
RemoteTips(n) ==
    {[p \in 1..n |-> IF p <= k THEN [fork |-> 1, height |-> h1]
                     ELSE [fork |-> 2, height |-> h2]] :
        k \in {2, n - 2}, h1 \in 0..MaxHeight, h2 \in 0..MaxHeight}

InitSync ==
    /\ \E sh \in {BeaconChainShardID, BeaconChainShardID + 1} :
            consensus = [InitConsensus EXCEPT !.shardID = sh]
    /\ proposalNewBlock = 1
    /\ commitFinishChan = <<>>
    /\ proposerPC = "run"
    /\ finishPC = "recv"
    /\ finishWake = 0
    /\ isStaking = TRUE
    /\ peer = [chain |-> <<>>, prepared |-> ZeroHash]
    /\ payloadCall = NoPayload
    /\ hist = InitHist
    /\ \E n \in {NumSyncPeers - 2, NumSyncPeers} : \E tips \in RemoteTips(n) :
            node = [InitNode EXCEPT
                        !.conns = [p \in 1..n |-> p],
                        !.remote = tips,
                        !.beaconchain =
                            IF consensus.shardID = BeaconChainShardID
                            THEN <<>> ELSE ForkChain(3, 1)]

NextSync ==
    \/ SyncProbe
    \/ \E chosen \in 1..NumSyncPeers, sendOK \in BOOLEAN :
            SyncRequest(chosen, sendOK)
    \/ SyncCancel
    \/ HandleIncomingBlocksBySync

SpecSync == InitSync /\ [][NextSync]_vars

\* ------------------------------------------------------ the sync server
\* The server alone: a node of either shard, with a chain of any height
\* on either fork, serves the requests of its peers.
InitServer ==
    /\ \E sh \in {BeaconChainShardID, BeaconChainShardID + 1} :
       \E f \in 1..2, h \in 0..MaxHeight :
            consensus = [InitConsensus EXCEPT !.shardID = sh,
                                              !.chain = ForkChain(f, h)]
    /\ proposalNewBlock = 1
    /\ commitFinishChan = <<>>
    /\ proposerPC = "run"
    /\ finishPC = "recv"
    /\ finishWake = 0
    /\ isStaking = TRUE
    /\ peer = [chain |-> <<>>, prepared |-> ZeroHash]
    /\ payloadCall = NoPayload
    /\ hist = InitHist
    /\ node = [InitNode EXCEPT !.beaconchain =
                    IF consensus.shardID = BeaconChainShardID
                    THEN <<>> ELSE ForkChain(3, 1)]

NextServer == \E req \in ServerRequests : Serve(req)

SpecServer == InitServer /\ [][NextServer]_vars

C20_ServerAnswersExactHeight ==
    (node.served # NoBallot /\ node.served.req.type \in
            {"SYNC_REQUEST_BLOCK", "SYNC_REQUEST_BLOCK_HEADER"}) =>
        LET req == node.served.req
            out == node.served.out
            beacon == IF consensus.shardID = BeaconChainShardID
                      THEN consensus.chain ELSE node.beaconchain
            chain == IF req.shardID = BeaconChainShardID THEN beacon
                     ELSE consensus.chain
            want == IF req.height = 0 THEN GenesisBlock
                    ELSE chain[req.height]
        IN  IF req.height > Len(chain)
            THEN /\ out.err = errDoNotHaveDesiredBlockNum
                 /\ out.written = NoResponse
            ELSE /\ out.err = ""
                 /\ req.type = "SYNC_REQUEST_BLOCK" =>
                        out.written = [type |-> "SYNC_RESPONSE_BLOCK",
                                       blocks |-> <<want>>]
                 /\ req.type = "SYNC_REQUEST_BLOCK_HEADER" =>
                        out.written = [type |-> "SYNC_RESPONSE_BLOCK_HEADER",
                                       headers |-> <<want>>]

\* a node of a shard other than the beacon shard, two blocks high, was
\* asked for block 1 of its own shard and answered with it
C20_Witness ==
    /\ node.served # NoBallot
    /\ consensus.shardID # BeaconChainShardID
    /\ Len(consensus.chain) = 2
    /\ node.served.req = [type |-> "SYNC_REQUEST_BLOCK",
                          shardID |-> consensus.shardID, height |-> 1]
    /\ node.served.out.written.blocks = <<consensus.chain[1]>>

\* ------------------------------------------------------- the sync rounds
\* StartBlockSyncing: every round takes a read-only snapshot of the map of
\* stream handles into the context, starts downloadBlocksForSync, waits
\* for the context to be done, drops the pulled blocks, invalidates every
\* handle of the map and clears the map.
\* peers the host has connections to in a round
NumRoundPeers == 2

\* the context of the task snd is not done: its round has not timed out
\* and no task of its errgroup has returned an error
CtxAlive(snd) ==
    /\ node.roundPC = "download"
    /\ snd.round = node.round
    /\ \A i \in 1..Len(node.senders) :
            node.senders[i].round = snd.round =>
                node.senders[i].pc # "failed"

\* harmonyProtocolPeers: the connections to peers the snapshot has no
\* handle for
harmonyProtocolPeers(conns, streamHandles) ==
    SelectSeq(conns, LAMBDA p : streamHandles[p] = 0)

\* StartBlockSyncing up to the wait for the context, and the start of
\* downloadBlocksForSync: one task per connection, each with the height of
\* the current header
RoundStart ==
    /\ node.roundPC = "idle"
    /\ node.round < MaxRounds
    /\ LET snapshot == node.streamHandles
           hmyConns == harmonyProtocolPeers(node.conns, snapshot)
           height == CurrentNumber(IF consensus.shardID = BeaconChainShardID
                                   THEN ThisNode.beaconchain
                                   ELSE ThisNode.blockchain)
       IN  node' = [node EXCEPT
                !.roundPC = "download",
                !.blocksPulled = <<>>,
                !.senders = @ \o [i \in 1..Len(hmyConns) |->
                    [peer |-> hmyConns[i], round |-> node.round,
                     snap |-> snapshot, height |-> height,
                     pc |-> "lookup", handle |-> 0]]]
    /\ UNCHANGED <<consensus, syncVars>>

\* messageSenderForPeer up to the insert: a handle of the context's
\* snapshot is returned; otherwise a new handle is made and put into the
\* node's map
SenderLookup(i) ==
    /\ node.senders[i].pc = "lookup"
    /\ LET snd == node.senders[i]
       IN  IF snd.snap[snd.peer] # 0
           THEN node' = [node EXCEPT
                    !.senders[i].handle = snd.snap[snd.peer],
                    !.senders[i].pc = "send"]
           ELSE node' = [node EXCEPT
                    !.handles = @ + 1,
                    !.streamHandles[snd.peer] = node.handles + 1,
                    !.senders[i].handle = node.handles + 1,
                    !.senders[i].pc = "prep"]
    /\ UNCHANGED <<consensus, syncVars>>

\* messageSenderForPeer from prepOrInvalidate on; prepOK: the stream to the
\* peer could be opened. After a failure the handle is invalid, and the
\* handle the context's snapshot has for the peer is returned if there is
\* one
SenderPrep(i, prepOK) ==
    /\ node.senders[i].pc = "prep"
    /\ prepOK => CtxAlive(node.senders[i])
    /\ LET snd == node.senders[i]
       IN  IF prepOK
           THEN node' = [node EXCEPT !.senders[i].pc = "send"]
           ELSE IF snd.snap[snd.peer] # 0 /\ snd.snap[snd.peer] # snd.handle
           THEN node' = [node EXCEPT
                    !.invalid = @ \cup {snd.handle},
                    !.senders[i].handle = snd.snap[snd.peer],
                    !.senders[i].pc = "send"]
           ELSE node' = [node EXCEPT
                    !.invalid = @ \cup {snd.handle},
                    !.senders[i].pc = "failed"]
    /\ UNCHANGED <<consensus, syncVars>>

\* downloadBlocksForSync, the request of one task: the block at the height
\* of the current header is asked for and the reply goes to the results.
\* The reply is decoded and kept as it comes, its height is not compared
\* with the request; ahead: the peer answers with the block after the one
\* asked for
SenderSend(i, sendOK, ahead) ==
    /\ node.senders[i].pc = "send"
    /\ sendOK => CtxAlive(node.senders[i])
    /\ LET snd == node.senders[i]
           req == [type |-> "SYNC_REQUEST_BLOCK",
                   shardID |-> consensus.shardID,
                   height |-> snd.height]
           reply == handleNewMessage(RemoteNode(snd.peer),
                        [req EXCEPT !.height = @ + ahead])
           sent == [peer |-> snd.peer, height |-> req.height,
                    cluster |-> {},
                    head |-> CurrentNumber(ThisNode.blockchain)]
       IN  IF ~sendOK \/ snd.handle \in node.invalid
           THEN node' = [node EXCEPT !.senders[i].pc = "failed"]
           ELSE IF reply.err # ""
           THEN node' = [node EXCEPT !.senders[i].pc = "failed",
                                     !.requests = @ \cup {sent}]
           ELSE node' = [node EXCEPT
                    !.senders[i].pc = "done",
                    !.requests = @ \cup {sent},
                    !.blocksPulled = @ \o reply.written.blocks]
    /\ UNCHANGED <<consensus, syncVars>>

\* StartBlockSyncing after the context is done: the pulled blocks are
\* dropped, the handles of the map are invalidated, the map is cleared
RoundEnd ==
    /\ node.roundPC = "download"
    /\ node' = [node EXCEPT
            !.roundPC = "idle",
            !.round = @ + 1,
            !.invalid = @ \cup ({node.streamHandles[p] :
                                    p \in DOMAIN node.streamHandles} \ {0}),
            !.streamHandles = [p \in DOMAIN node.streamHandles |-> 0]]
    /\ UNCHANGED <<consensus, syncVars>>

\* a peer can have several connections: Swarm().Peers() gives one entry
\* per connection
RoundConns == {<<1, 2>>, <<1, 1>>}

InitRound ==
    /\ \E sh \in {BeaconChainShardID, BeaconChainShardID + 1} :
       \E h \in 0..1 :
            consensus = [InitConsensus EXCEPT !.shardID = sh,
                                              !.chain = ForkChain(1, h)]
    /\ proposalNewBlock = 1
    /\ commitFinishChan = <<>>
    /\ proposerPC = "run"
    /\ finishPC = "recv"
    /\ finishWake = 0
    /\ isStaking = TRUE
    /\ peer = [chain |-> <<>>, prepared |-> ZeroHash]
    /\ payloadCall = NoPayload
    /\ hist = InitHist
    /\ \E conns \in RoundConns :
            node = [InitNode EXCEPT
                        !.conns = conns,
                        !.remote = [p \in 1..NumRoundPeers |->
                                        [fork |-> 1, height |-> MaxHeight]],
                        !.streamHandles = [p \in 1..NumRoundPeers |-> 0],
                        !.beaconchain =
                            IF consensus.shardID = BeaconChainShardID
                            THEN <<>> ELSE ForkChain(3, 1)]

NextRound ==
    \/ RoundStart
    \/ \E i \in DOMAIN node.senders : SenderLookup(i)
    \/ \E i \in DOMAIN node.senders, prepOK \in BOOLEAN : SenderPrep(i, prepOK)
    \/ \E i \in DOMAIN node.senders, sendOK \in BOOLEAN, ahead \in 0..1 :
            SenderSend(i, sendOK, ahead)
    \/ RoundEnd

SpecRound == InitRound /\ [][NextRound]_vars

\* C18: every request of a sync round asks for the block at the height of
\* the local head plus one, never for the block at the height of the
\* local head itself
C18_RequestsNextBlock ==
    \A r \in node.requests : r.height = r.head + 1 /\ r.height # r.head

\* C19: the lookup-or-insert of messageSenderForPeer is atomic: the calls
\* for one peer that succeeded in a round hold the same handle, and the
\* handle a call holds is the one the map has for the peer, so that no
\* second handle for the peer is in use beside the map's
C19_AtomicLookupOrInsert ==
    \A i, j \in DOMAIN node.senders :
        LET a == node.senders[i]
            b == node.senders[j]
        IN  (/\ a.peer = b.peer
             /\ a.round = b.round
             /\ CtxAlive(a)
             /\ a.pc \in {"send", "done"}
             /\ b.pc \in {"send", "done"}
             /\ a.handle \notin node.invalid
             /\ b.handle \notin node.invalid)
            => /\ a.handle = b.handle
               /\ node.streamHandles[a.peer] = a.handle

\* ------------------------------------------- cross-shard receipt proofs
\* const maxCrossTxnSize = 4096, scaled to the proofs of the model
maxCrossTxnSize == 2
\* IncomingReceiptsLimit = 6000, scaled to the receipts of the model
IncomingReceiptsLimit == 1
\* source shards and source block numbers of the proofs
NumShards == 3
MaxReceiptBlock == 1

\* CXReceiptsProof: the shard and number of the source header, the
\* ToShardID of each receipt, and what the collaborators say of the proof:
\* ContainsEmptyField, ValidateCXReceiptsProof, AcceptsCrossTx of the
\* header's epoch, IsSpent
MsgNoShardStateFromDB == "failed to read shard state from DB"
CXReceiptsProofs ==
    [shardID : 0..NumShards - 1, blockNum : 0..MaxReceiptBlock,
     toShardID : {<<0>>, <<1>>, <<0, 1>>},
     emptyField : BOOLEAN,
     validate : {"", "invalid proof", MsgNoShardStateFromDB},
     acceptsCrossTx : BOOLEAN, spent : BOOLEAN]

GetPendingCXKey(shardID, blockNum) == <<shardID, blockNum>>
PendingCXKeys(pool) == {GetPendingCXKey(v.shardID, v.blockNum) : v \in pool}
Logged(level, msg) == [level |-> level, msg |-> msg]

\* AddPendingReceipts: the pool and the message logged after the call
AddPendingReceiptsResult(n, shardID, receipts) ==
    IF receipts.emptyField
    THEN [pool |-> n.pendingCXReceipts,
          log |-> Logged("info", "CXReceiptsProof contains empty field")]
    ELSE IF receipts.validate \notin {"", MsgNoShardStateFromDB}
    THEN [pool |-> n.pendingCXReceipts,
          log |-> Logged("error", "[AddPendingReceipts] Invalid CXReceiptsProof")]
    ELSE IF shardID = receipts.shardID
    THEN [pool |-> n.pendingCXReceipts,
          log |-> Logged("info", "ShardID of incoming receipt was same as mine")]
    ELSE IF receipts.blockNum = 0 \/ ~receipts.acceptsCrossTx
    THEN [pool |-> n.pendingCXReceipts,
          log |-> Logged("info", "Incoming receipt had meaningless epoch")]
    ELSE IF Cardinality(n.pendingCXReceipts) >= maxCrossTxnSize
    THEN [pool |-> n.pendingCXReceipts,
          log |-> Logged("info", "Current pending cx-receipts reached size limit")]
    ELSE IF GetPendingCXKey(receipts.shardID, receipts.blockNum)
                \in PendingCXKeys(n.pendingCXReceipts)
    THEN [pool |-> n.pendingCXReceipts,
          log |-> Logged("info", "Already Got Same Receipt message")]
    ELSE [pool |-> n.pendingCXReceipts \cup {receipts},
          log |-> Logged("info", "Got ONE more receipt message")]

AddPendingReceipts(receipts) ==
    /\ LET r == AddPendingReceiptsResult(node, consensus.shardID, receipts)
       IN  node' = [node EXCEPT !.pendingCXReceipts = r.pool, !.log = r.log]
    /\ UNCHANGED <<consensus, syncVars>>

\* proposeReceiptsProof, the loop over the pool in the order the map gives:
\* numProposed receipts are selected so far, m holds the source blocks seen
RECURSIVE ProposeLoop(_, _, _, _, _, _)
ProposeLoop(order, shardID, numProposed, m, valid, pending) ==
    IF order = <<>> THEN [valid |-> valid, pending |-> pending]
    ELSE LET cxp == Head(order)
             rest == Tail(order)
             hash == <<cxp.shardID, cxp.blockNum>>
         IN  IF numProposed > IncomingReceiptsLimit
             THEN ProposeLoop(rest, shardID, numProposed, m, valid,
                              pending \cup {cxp})
             ELSE IF cxp.spent
             THEN ProposeLoop(rest, shardID, numProposed, m, valid, pending)
             ELSE IF hash \in m
             THEN ProposeLoop(rest, shardID, numProposed, m, valid, pending)
             ELSE IF \E i \in 1..Len(cxp.toShardID) :
                        cxp.toShardID[i] # shardID
             THEN ProposeLoop(rest, shardID, numProposed, m \cup {hash},
                              valid, pending)
             ELSE IF cxp.validate = MsgNoShardStateFromDB
             THEN ProposeLoop(rest, shardID, numProposed, m \cup {hash},
                              valid, pending \cup {cxp})
             ELSE IF cxp.validate # ""
             THEN ProposeLoop(rest, shardID, numProposed, m \cup {hash},
                              valid, pending)
             ELSE ProposeLoop(rest, shardID,
                              numProposed + Len(cxp.toShardID),
                              m \cup {hash}, Append(valid, cxp), pending)

\* the orders a range over the map can take
PoolOrders(pool) ==
    {order \in [1..Cardinality(pool) -> pool] :
        \A i, j \in 1..Cardinality(pool) : i # j => order[i] # order[j]}

\* proposeReceiptsProof; hasCrossTxFields: the epoch of the worker's
\* header has cross-shard fields
proposeReceiptsProof(hasCrossTxFields) ==
    /\ IF ~hasCrossTxFields
       THEN node' = [node EXCEPT !.validReceiptsList = <<>>]
       ELSE \E order \in PoolOrders(node.pendingCXReceipts) :
                LET r == ProposeLoop(order, consensus.shardID, 0, {},
                                     <<>>, {})
                IN  node' = [node EXCEPT
                        !.pendingCXReceipts = r.pending,
                        !.validReceiptsList = r.valid,
                        !.log = Logged("debug",
                            "[proposeReceiptsProof] number of validReceipts")]
    /\ UNCHANGED <<consensus, syncVars>>

InitReceipts ==
    /\ \E sh \in {BeaconChainShardID, BeaconChainShardID + 1} :
            consensus = [InitConsensus EXCEPT !.shardID = sh]
    /\ proposalNewBlock = 1
    /\ commitFinishChan = <<>>
    /\ proposerPC = "run"
    /\ finishPC = "recv"
    /\ finishWake = 0
    /\ isStaking = TRUE
    /\ peer = [chain |-> <<>>, prepared |-> ZeroHash]
    /\ payloadCall = NoPayload
    /\ hist = InitHist
    /\ node = InitNode

NextReceipts ==
    \/ \E receipts \in CXReceiptsProofs : AddPendingReceipts(receipts)
    \/ \E hasCrossTxFields \in BOOLEAN :
            proposeReceiptsProof(hasCrossTxFields)

SpecReceipts == InitReceipts /\ [][NextReceipts]_vars

\* C21: AddPendingReceipts rejects a proof that holds a receipt whose
\* ToShardID is not the shard of this node: the pool is as it was before
\* the call, and no error is logged (the proof is a valid proof of its
\* source block: only the target shard is not this one)
C21_MisroutedReceiptRejected ==
    [][\A receipts \in CXReceiptsProofs :
        (/\ AddPendingReceipts(receipts)
         /\ receipts.validate = ""
         /\ \E i \in 1..Len(receipts.toShardID) :
                receipts.toShardID[i] # consensus.shardID)
        => /\ node'.pendingCXReceipts = node.pendingCXReceipts
           /\ node'.log.level # "error"]_vars

\* ---------------------------------------------- consensus block processing
\* HandleConsensusBlockProcessing: one task serves RoundCompleted.Request,
\* one serves Verify.Request; each request has its own reply channel Err.
\* requests made in a run
MaxRequests == 3
errInsertChain == "insert chain failed"
ProcessingResults == {"nil", "failed"}

\* one turn of the first task without the continue after the insertion
\* error
HandleRoundCompleted_NoContinue(chain, blk, postErr) ==
    LET r == InsertChain(chain, blk)
    IN  IF r.err
        THEN [chain |-> r.chain, sends |-> <<errInsertChain, postErr>>,
              post |-> TRUE]
        ELSE [chain |-> r.chain, sends |-> <<postErr>>, post |-> TRUE]

\* one turn of the first task: the chain after it, what it sends on the
\* request's reply channel, whether postConsensusProcessing was run;
\* postErr: what postConsensusProcessing returns for the block
HandleRoundCompleted(chain, blk, postErr) ==
    LET r == InsertChain(chain, blk)
    IN  IF r.err
        THEN [chain |-> r.chain, sends |-> <<errInsertChain>>,
              post |-> FALSE]
        ELSE [chain |-> r.chain, sends |-> <<postErr>>, post |-> TRUE]

\* a request for blk arrives on RoundCompleted.Request and the first task,
\* waiting for one, takes it, inserts the block and processes it
RoundCompletedRequest(blk, postErr) ==
    /\ node.roundCompleted.req = 0
    /\ Len(node.asked) < MaxRequests
    /\ LET r == HandleRoundCompleted(consensus.chain, blk, postErr)
           id == Len(node.asked) + 1
       IN  /\ consensus' = [consensus EXCEPT !.chain = r.chain]
           /\ node' = [node EXCEPT
                    !.roundCompleted = [req |-> id, sends |-> r.sends],
                    !.asked = Append(@, [kind |-> "RoundCompleted",
                        blk |-> blk,
                        inserted |-> r.chain # consensus.chain,
                        post |-> r.post, replies |-> <<>>])]
    /\ UNCHANGED syncVars

\* a request for blk arrives on Verify.Request and the second task takes
\* it; verifyErr: what verifyBlock returns for the block
VerifyRequest(blk, verifyErr) ==
    /\ node.verify.req = 0
    /\ Len(node.asked) < MaxRequests
    /\ node' = [node EXCEPT
            !.verify = [req |-> Len(node.asked) + 1,
                        sends |-> <<verifyErr>>],
            !.asked = Append(@, [kind |-> "Verify", blk |-> blk,
                inserted |-> FALSE, post |-> FALSE, replies |-> <<>>])]
    /\ UNCHANGED <<consensus, syncVars>>

\* a task sends on the reply channel of the request it serves and the
\* requester receives; after the last send of the turn the task waits for
\* the next request
Reply(task) ==
    /\ node[task].req # 0
    /\ LET t == node[task]
       IN  node' = [node EXCEPT
                ![task] = IF Len(t.sends) = 1
                          THEN [req |-> 0, sends |-> <<>>]
                          ELSE [req |-> t.req, sends |-> Tail(t.sends)],
                !.asked[t.req].replies = Append(@, Head(t.sends))]
    /\ UNCHANGED <<consensus, syncVars>>

InitBlockProcessing ==
    /\ \E sh \in {BeaconChainShardID, BeaconChainShardID + 1} :
            consensus = [InitConsensus EXCEPT !.shardID = sh]
    /\ proposalNewBlock = 1
    /\ commitFinishChan = <<>>
    /\ proposerPC = "run"
    /\ finishPC = "recv"
    /\ finishWake = 0
    /\ isStaking = TRUE
    /\ peer = [chain |-> <<>>, prepared |-> ZeroHash]
    /\ payloadCall = NoPayload
    /\ hist = InitHist
    /\ node = InitNode

\* the blocks a request carries: the blocks of two forks up to MaxHeight
RequestBlocks == {ForkBlock(f, n) : f \in 1..2, n \in 1..MaxHeight}

NextBlockProcessing ==
    \/ \E blk \in RequestBlocks, postErr \in ProcessingResults :
            RoundCompletedRequest(blk, postErr)
    \/ \E blk \in RequestBlocks, verifyErr \in ProcessingResults :
            VerifyRequest(blk, verifyErr)
    \/ Reply("roundCompleted")
    \/ Reply("verify")

SpecBlockProcessing == InitBlockProcessing /\ [][NextBlockProcessing]_vars

\* C22: every request gets exactly one result on its reply channel (none
\* while it is being served, never more than one); when the insertion of
\* the block fails the result is the insertion error and
\* postConsensusProcessing is not run for the block; a task that has sent
\* the result waits for the next request
C22_OneReplyPerRequest ==
    \A id \in 1..Len(node.asked) :
        LET a == node.asked[id]
            served == node.roundCompleted.req # id /\ node.verify.req # id
        IN  /\ Len(a.replies) <= 1
            /\ served => Len(a.replies) = 1
            /\ (a.kind = "RoundCompleted" /\ ~a.inserted) =>
                    /\ ~a.post
                    /\ served => a.replies = <<errInsertChain>>
            /\ (a.kind = "RoundCompleted" /\ a.inserted) => a.post

\* the insertion for the first request failed and was answered with the
\* insertion error; the same task then served a second request, whose
\* block went in and was processed
C22_Witness ==
    /\ Len(node.asked) >= 2
    /\ node.asked[1].kind = "RoundCompleted"
    /\ node.asked[1].replies = <<errInsertChain>>
    /\ ~node.asked[1].post
    /\ node.asked[2].kind = "RoundCompleted"
    /\ node.asked[2].inserted
    /\ node.asked[2].replies = <<"nil">>
    /\ node.roundCompleted.req = 0

\* ----------------------------------------------------------- Node.Start
\* Node.Start starts two tasks for every subscribed topic: one takes the
\* next message of the subscription and hands it over, the other starts a
\* handler for it if the topic's semaphore has a free permit. The first
\* task reads the loop variable sub whenever it asks for the next message;
\* the loop writes it at every turn (go 1.14: one variable for the whole
\* loop), so the task reads the topic the loop has reached by then.
\* subscribed topics
NumTopics == 3
\* const maxMessageHandlers = 200, scaled
maxMessageHandlers == 2
Topics == 1..NumTopics

Permits(i) ==
    LET RECURSIVE Sum(_)
        Sum(t) == IF t = 0 THEN 0 ELSE node.handlers[i][t] + Sum(t - 1)
    IN  Sum(NumTopics)
\* the handlers that run on messages of topic t
HandlersOfTopic(t) ==
    LET RECURSIVE Sum(_)
        Sum(i) == IF i = 0 THEN 0 ELSE node.handlers[i][t] + Sum(i - 1)
    IN  Sum(NumTopics)

\* one turn of the loop over allTopics: sub is set to the next
\* subscription and the two tasks of the topic are started
StartTopic ==
    /\ node.sub < NumTopics
    /\ node' = [node EXCEPT !.sub = @ + 1]
    /\ UNCHANGED <<consensus, syncVars>>

\* the tasks started for topic i: sub.Next gives the next message (sub is
\* read now), it is not the node's own, and TryAcquire either lets a
\* handler start or the message is dropped
NextMessage(i) ==
    /\ i \in 1..node.sub
    /\ LET topic == node.sub
       IN  IF Permits(i) < maxMessageHandlers
           THEN node' = [node EXCEPT
                    !.handlers[i][topic] = @ + 1,
                    !.log = Logged("", "")]
           ELSE node' = [node EXCEPT !.log = Logged("info",
                  "could not acquire semaphore to process incoming message")]
    /\ UNCHANGED <<consensus, syncVars>>

\* a handler started by the tasks of topic i returns (at once when the
\* payload is shorter than the prefix, after HandleMessage otherwise) and
\* its deferred Release gives the permit back
HandlerReturns(i, topic, short) ==
    /\ node.handlers[i][topic] > 0
    /\ node' = [node EXCEPT
            !.handlers[i][topic] = @ - 1,
            !.log = IF short
                    THEN Logged("info",
                        "p2p message above expected size, possible attack")
                    ELSE Logged("", "")]
    /\ UNCHANGED <<consensus, syncVars>>

InitStart ==
    /\ \E sh \in {BeaconChainShardID, BeaconChainShardID + 1} :
            consensus = [InitConsensus EXCEPT !.shardID = sh]
    /\ proposalNewBlock = 1
    /\ commitFinishChan = <<>>
    /\ proposerPC = "run"
    /\ finishPC = "recv"
    /\ finishWake = 0
    /\ isStaking = TRUE
    /\ peer = [chain |-> <<>>, prepared |-> ZeroHash]
    /\ payloadCall = NoPayload
    /\ hist = InitHist
    /\ node = [InitNode EXCEPT
                    !.handlers = [i \in Topics |-> [t \in Topics |-> 0]]]

NextStart ==
    \/ StartTopic
    \/ \E i \in Topics : NextMessage(i)
    \/ \E i \in Topics, topic \in Topics, short \in BOOLEAN :
            HandlerReturns(i, topic, short)

SpecStart == InitStart /\ [][NextStart]_vars

\* C23: for every subscribed topic, the handlers that run at the same
\* time on messages of the topic are never more than maxMessageHandlers
C23_HandlersPerTopicBounded ==
    \A t \in Topics : HandlersOfTopic(t) <= maxMessageHandlers

\* C24: after Announce(B) has returned without error at the leader with
\* block number n and view-id v, the block hash is hash(B), the log holds
\* the ANNOUNCE message and B, the leader holds a Prepare ballot on
\* hash(B) at (n, v) and its bit of the prepare bitmap is set, the
\* ANNOUNCE is broadcast and the phase is Prepare; after Announce has
\* returned an error the phase is the one before the call. Stated of the
\* call the proposer task makes next, whenever a proposal signal waits
AnnounceDone(c, B, n, v) ==
    LET msg == [type |-> "ANNOUNCE", blockNum |-> n, viewID |-> v,
                blockHash |-> Hash(B), sender |-> Self, payload |-> B]
    IN  /\ c.blockHash = Hash(B)
        /\ msg \in c.msgs
        /\ B \in c.blocks
        /\ ReadBallot(c, "Prepare", Self) # NoBallot
        /\ ReadBallot(c, "Prepare", Self).hash = Hash(B)
        /\ ReadBallot(c, "Prepare", Self).num = n
        /\ ReadBallot(c, "Prepare", Self).view = v
        /\ VerifyHash(ReadBallot(c, "Prepare", Self).sig, Self, Hash(B))
        /\ Self \in c.prepareBitmap
        /\ msg \in c.sent
        /\ c.phase = "Prepare"
C24_AnnouncePostcondition ==
    (/\ proposerPC = "run"
     /\ proposalNewBlock > 0
     /\ IsLeader(consensus))
    => \A sendOK \in BOOLEAN :
            LET B == proposeNewBlock
                r == Announce([consensus EXCEPT !.nextBlockDue = BlockTime],
                              B, sendOK)
            IN  IF ~r.err
                THEN /\ B.parent = HeadHash(consensus)
                     /\ AnnounceDone(r.c, B, consensus.blockNum,
                                     consensus.viewID)
                ELSE r.c.phase = consensus.phase

\* C25: the leader's phase becomes Commit exactly in the step in which the
\* Prepare tally first reaches quorum: the phase becomes Commit and
\* PREPARED is constructed only in a step before which there was no quorum
\* and after which there is one, such a step does both, and while there is
\* a quorum no further Prepare ballot is added
PreparedConstructed(c) ==
    {m \in c.sent : /\ m.type = "PREPARED" /\ m.sender = Self
                    /\ m.blockNum = c.blockNum /\ m.viewID = c.viewID
                    /\ m.blockHash = c.blockHash}
C26_OnlyMatchingPrepareCounted ==
    \A msg \in HonestMessages \cup ByzantineMessages :
        (/\ msg.type = "PREPARE"
         /\ \/ msg.blockHash # consensus.blockHash
            \/ msg.blockNum # consensus.blockNum
            \/ msg.viewID # consensus.viewID
            \/ ~HasMatchingViewAnnounce(consensus, msg.blockNum, msg.viewID,
                                        msg.blockHash))
        => HandleMessageUpdate(consensus, msg).c.ballots = consensus.ballots

\* C27: a call of FinalizeCommits that returns without error, and so has
\* broadcast COMMITTED and lets the loop send the proposal signal, has
\* committed the block: the block of the round is appended to the chain
\* and the block number is one more than before the call
C27_CommittedOnlyAfterCommit ==
    [][(FinalizeStep /\ finishPC' = "send") =>
        /\ \E m \in consensus'.sent :
                /\ m.type = "COMMITTED"
                /\ m.blockNum = consensus.blockNum
                /\ m.blockHash = consensus.blockHash
        /\ Len(consensus'.chain) = Len(consensus.chain) + 1
        /\ Hash(consensus'.chain[Len(consensus'.chain)]) = consensus.blockHash
        /\ consensus'.blockNum = consensus.blockNum + 1]_vars

\* C28: proposals and finalizations alternate at the leader: apart from
\* the signal that starts the first proposal, every proposal signal,
\* taken by the proposer or still waiting in the channel, stands for one
\* block that has been finalized into the chain, so block n+1 is proposed
\* only after block n is in the chain
C28_ProposalFollowsFinalizedBlock ==
    hist.proposals + proposalNewBlock <= Len(consensus.chain) + 1

\* C29: when a sync round ends and one of the blocks it pulled, all of
\* them of the node's shard, has the current head as its parent, the
\* block is inserted: the chain is one block longer and ends with it
C29_PulledBlockInserted ==
    [][(/\ RoundEnd
        /\ \E i \in 1..Len(node.blocksPulled) :
                node.blocksPulled[i].parent = HeadHash(consensus))
       => \E i \in 1..Len(node.blocksPulled) :
                /\ node.blocksPulled[i].parent = HeadHash(consensus)
                /\ consensus'.chain =
                        Append(consensus.chain, node.blocksPulled[i])]_vars

\* ------------------------------------------------- grouping the heights
\* commonHash alone: some of the peers answer the height request, each
\* with the tips of its shard chain and of its beacon chain, and the
\* responses are grouped.
\* peers whose heights are asked for
NumHashPeers == 4

\* what a peer can answer: its shard chain is empty or one block high on
\* one of two forks, its beacon chain one block high on one of two forks
HeightResponses ==
    {syncRespBlockHeightHandler(
        [shardID |-> BeaconChainShardID + 1,
         blockchain |-> ForkChain(f, h),
         beaconchain |-> ForkChain(g, 1)], NoResponse).resp :
        f \in 1..2, h \in 0..1, g \in 3..4}

\* protocolPeerHeights: the map of the responses, one per peer that
\* answered
protocolPeerHeights(responded, resp) ==
    /\ node.collect = <<>>
    /\ responded # {}
    /\ node' = [node EXCEPT !.collect = [p \in responded |-> resp[p]]]
    /\ UNCHANGED <<consensus, syncVars>>

\* syncFromHMYPeersIfNeeded calls commonHash on the responses
CommonHash ==
    /\ node.collect # <<>>
    /\ node.chainCommonHashes.shard = <<>>
    /\ \E chainCommonHashes \in commonHash(node.collect) :
            node' = [node EXCEPT !.chainCommonHashes = chainCommonHashes]
    /\ UNCHANGED <<consensus, syncVars>>

InitCommonHash ==
    /\ consensus = [InitConsensus EXCEPT !.shardID = BeaconChainShardID + 1]
    /\ proposalNewBlock = 1
    /\ commitFinishChan = <<>>
    /\ proposerPC = "run"
    /\ finishPC = "recv"
    /\ finishWake = 0
    /\ isStaking = TRUE
    /\ peer = [chain |-> <<>>, prepared |-> ZeroHash]
    /\ payloadCall = NoPayload
    /\ hist = InitHist
    /\ node = InitNode

NextCommonHash ==
    \/ \E responded \in SUBSET (1..NumHashPeers) :
       \E resp \in [responded -> HeightResponses] :
            protocolPeerHeights(responded, resp)
    \/ CommonHash

SpecCommonHash == InitCommonHash /\ [][NextCommonHash]_vars

RECURSIVE PeerCount(_)
PeerCount(list) ==
    IF list = <<>> THEN 0
    ELSE Cardinality(Head(list).peersWithIt) + PeerCount(Tail(list))

\* the list is a partition of the responses by the hash they carry in
\* the given field, in non-increasing order of size
IsPartitionByHash(list, collect, field) ==
    /\ \A p \in DOMAIN collect :
            \E i \in 1..Len(list) :
                /\ p \in list[i].peersWithIt
                /\ list[i].hash = collect[p][field]
                /\ \A j \in 1..Len(list) :
                        p \in list[j].peersWithIt => j = i
    /\ \A i \in 1..Len(list) : list[i].peersWithIt \subseteq DOMAIN collect
    /\ PeerCount(list) = Cardinality(DOMAIN collect)
    /\ \A i, j \in 1..Len(list) :
            i < j => Cardinality(list[i].peersWithIt)
                        >= Cardinality(list[j].peersWithIt)
    /\ \A p \in DOMAIN collect :
            Cardinality({q \in DOMAIN collect :
                            collect[q][field] = collect[p][field]})
                <= Cardinality(list[1].peersWithIt)

\* C30: commonHash partitions the height responses by tip hash: in the
\* shard list and in the beacon list every responding peer is in exactly
\* one cluster, the one of the hash it reported, the cluster sizes sum to
\* the number of responses, the clusters come in non-increasing order of
\* size and the first cluster is one of a most common hash
C30_CommonHashPartitions ==
    node.chainCommonHashes.shard # <<>> =>
        /\ IsPartitionByHash(node.chainCommonHashes.shard, node.collect,
                             "shardHash")
        /\ IsPartitionByHash(node.chainCommonHashes.beacon, node.collect,
                             "beaconHash")

\* four peers answered; their shard tips make clusters of two, one and
\* one peer, their beacon tips clusters of three and one
C30_Witness ==
    LET shard == node.chainCommonHashes.shard
        beacon == node.chainCommonHashes.beacon
    IN  /\ DOMAIN node.collect = 1..NumHashPeers
        /\ Len(shard) = 3
        /\ Cardinality(shard[1].peersWithIt) = 2
        /\ Len(beacon) = 2
        /\ Cardinality(beacon[1].peersWithIt) = 3
        /\ ~(beacon[2].peersWithIt \subseteq shard[1].peersWithIt)

\* ------------------------------------------- the height probes, by task
\* protocolPeerHeights as its tasks run: the feeder hands the peers of
\* conns to the workers over hmyPeers, every worker asks its peer for the
\* heights and hands the response to the collector over collect; both
\* channels are unbuffered, so a send and its receive are one step.
\* const nWorkers = 10, scaled to the connections of the model
nWorkers == 2
\* connections handed to protocolPeerHeights
MaxProbeConns == 3

errSender == "messageSenderForPeer failed"
errRequest == "SendRequest failed"
ctxErr == "context canceled"

\* errgroup: a task of the group returns e; the first error that is not
\* nil is kept and cancels the group's context
GoReturns(h, e) ==
    IF e = "" THEN h
    ELSE [h EXCEPT !.err = IF @ = "" THEN e ELSE @, !.ctxDone = TRUE]

\* the worker's deferred function that closes collect whenever a worker
\* leaves
WorkerReturns_EachCloses(h, w, e) ==
    GoReturns([h EXCEPT !.worker[w].pc = "done", !.worker[w].err = e,
                        !.workers = @ - 1,
                        !.collectClosed = @ + 1], e)

\* a worker returns e: its deferred function counts the workers down and
\* the last one out closes collect
WorkerReturns(h, w, e) ==
    LET h1 == [h EXCEPT !.worker[w].pc = "done", !.worker[w].err = e,
                        !.workers = @ - 1]
    IN  GoReturns(IF h1.workers = 0
                  THEN [h1 EXCEPT !.collectClosed = @ + 1] ELSE h1, e)

\* the feeder's send of the next peer is taken by worker w
Feed(w) ==
    /\ node.heights.feeder = "run"
    /\ node.heights.next <= Len(node.conns)
    /\ w \in DOMAIN node.heights.worker
    /\ node.heights.worker[w].pc = "recv"
    /\ node' = [node EXCEPT
            !.heights.next = @ + 1,
            !.heights.worker[w] =
                [pc |-> "probe", id |-> node.conns[node.heights.next],
                 err |-> ""]]
    /\ UNCHANGED <<consensus, syncVars>>

\* the feeder's select takes ctx.Done(): it returns ctx.Err() and its
\* deferred close(hmyPeers) runs
FeederCancelled ==
    /\ node.heights.feeder = "run"
    /\ node.heights.next <= Len(node.conns)
    /\ node.heights.ctxDone
    /\ node' = [node EXCEPT !.heights =
            GoReturns([@ EXCEPT !.feeder = "done",
                                !.hmyPeersClosed = TRUE], ctxErr)]
    /\ UNCHANGED <<consensus, syncVars>>

\* the feeder has sent every peer: it closes hmyPeers and returns nil
FeederEnd ==
    /\ node.heights.feeder = "run"
    /\ node.heights.next > Len(node.conns)
    /\ node' = [node EXCEPT !.heights.feeder = "done",
                            !.heights.hmyPeersClosed = TRUE]
    /\ UNCHANGED <<consensus, syncVars>>

\* a worker's range over hmyPeers ends: the channel is closed
WorkerEnd(w) ==
    /\ w \in DOMAIN node.heights.worker
    /\ node.heights.worker[w].pc = "recv"
    /\ node.heights.hmyPeersClosed
    /\ node' = [node EXCEPT !.heights = WorkerReturns(@, w, "")]
    /\ UNCHANGED <<consensus, syncVars>>

\* messageSenderForPeer and SendRequest of a worker: an error of either
\* is returned, otherwise the worker goes on to send the response
Probe(w, outcome) ==
    /\ w \in DOMAIN node.heights.worker
    /\ node.heights.worker[w].pc = "probe"
    /\ IF outcome = ""
       THEN node' = [node EXCEPT !.heights.worker[w].pc = "send"]
       ELSE node' = [node EXCEPT !.heights = WorkerReturns(@, w, outcome)]
    /\ UNCHANGED <<consensus, syncVars>>

\* the worker's select takes the send on collect and the collector puts
\* the response into reduce; a send on a closed channel panics
Collect(w) ==
    /\ w \in DOMAIN node.heights.worker
    /\ node.heights.worker[w].pc = "send"
    /\ LET id == node.heights.worker[w].id
           msg == syncRespBlockHeightHandler(RemoteNode(id), NoResponse).resp
           reduce == node.heights.reduce
       IN  IF node.heights.collectClosed > 0
           THEN node' = [node EXCEPT !.heights.sentOnClosed = TRUE,
                                     !.heights.worker[w].pc = "panic"]
           ELSE /\ node.heights.collector = "run"
                /\ node' = [node EXCEPT
                        !.heights.worker[w].pc = "recv",
                        !.heights.reduce =
                            [q \in DOMAIN reduce \cup {id} |->
                                IF q = id THEN msg ELSE reduce[q]]]
    /\ UNCHANGED <<consensus, syncVars>>

\* the worker's select takes ctx.Done(): it returns ctx.Err()
WorkerCancelled(w) ==
    /\ w \in DOMAIN node.heights.worker
    /\ node.heights.worker[w].pc = "send"
    /\ node.heights.ctxDone
    /\ node' = [node EXCEPT !.heights = WorkerReturns(@, w, ctxErr)]
    /\ UNCHANGED <<consensus, syncVars>>

\* the collector's range over collect ends: the channel is closed
CollectorEnd ==
    /\ node.heights.collector = "run"
    /\ node.heights.collectClosed > 0
    /\ node' = [node EXCEPT !.heights.collector = "done"]
    /\ UNCHANGED <<consensus, syncVars>>

\* g.Wait() returns once every task of the group has returned
WaitReturns ==
    /\ ~node.heights.returned
    /\ node.heights.feeder = "done"
    /\ node.heights.collector = "done"
    /\ \A w \in DOMAIN node.heights.worker :
            node.heights.worker[w].pc = "done"
    /\ node' = [node EXCEPT !.heights.returned = TRUE,
                            !.collect = node.heights.reduce]
    /\ UNCHANGED <<consensus, syncVars>>

\* the connections handed in: up to three, two of them may go to one peer
ProbeConns ==
    UNION {[1..n -> 1..NumRoundPeers] : n \in 0..MaxProbeConns}

InitHeights ==
    /\ consensus = [InitConsensus EXCEPT !.shardID = BeaconChainShardID + 1]
    /\ proposalNewBlock = 1
    /\ commitFinishChan = <<>>
    /\ proposerPC = "run"
    /\ finishPC = "recv"
    /\ finishWake = 0
    /\ isStaking = TRUE
    /\ peer = [chain |-> <<>>, prepared |-> ZeroHash]
    /\ payloadCall = NoPayload
    /\ hist = InitHist
    /\ \E conns \in ProbeConns :
            node = [InitNode EXCEPT
                !.conns = conns,
                !.remote = [p \in 1..NumRoundPeers |->
                                [fork |-> p, height |-> 1]],
                !.heights.worker = [w \in 1..nWorkers |->
                                        [pc |-> "recv", id |-> 0, err |-> ""]],
                !.heights.workers = nWorkers]

NextHeights ==
    \/ \E w \in 1..nWorkers : Feed(w)
    \/ FeederCancelled
    \/ FeederEnd
    \/ \E w \in 1..nWorkers : WorkerEnd(w)
    \/ \E w \in 1..nWorkers, outcome \in {"", errSender, errRequest} :
            Probe(w, outcome)
    \/ \E w \in 1..nWorkers : Collect(w)
    \/ \E w \in 1..nWorkers : WorkerCancelled(w)
    \/ CollectorEnd
    \/ WaitReturns

\* every task is scheduled again and again
SpecHeights == InitHeights /\ [][NextHeights]_vars /\ WF_vars(NextHeights)

\* C31: protocolPeerHeights terminates under every interleaving of its
\* tasks; collect is closed at most once, and only by the last worker to
\* leave, and nothing is sent on it after the close; a call in which a
\* worker's probe failed returns the first such error, and a call that
\* returns no error returns a map with exactly one entry for every peer
\* probed, the response of that peer
C31_ProbesTerminate ==
    /\ [](/\ node.heights.collectClosed <= 1
          /\ node.heights.collectClosed = 1 => node.heights.workers = 0
          /\ ~node.heights.sentOnClosed)
    /\ [](node.heights.returned =>
            LET failed == {w \in DOMAIN node.heights.worker :
                    node.heights.worker[w].err \in {errSender, errRequest}}
            IN  /\ failed = {} <=> node.heights.err = ""
                /\ node.heights.err # "" =>
                        \E w \in failed :
                            node.heights.worker[w].err = node.heights.err
                /\ node.heights.err = "" =>
                    /\ DOMAIN node.collect =
                            {node.conns[i] : i \in DOMAIN node.conns}
                    /\ \A p \in DOMAIN node.collect :
                            node.collect[p] = syncRespBlockHeightHandler(
                                RemoteNode(p), NoResponse).resp)
    /\ <>node.heights.returned

\* a call with three connections has returned the error of a worker's
\* request, after another worker was cancelled while it waited to send
\* its response and a third response had been collected
C31_Witness ==
    /\ node.heights.returned
    /\ Len(node.conns) = MaxProbeConns
    /\ node.heights.err = errRequest
    /\ \E w \in DOMAIN node.heights.worker :
            node.heights.worker[w].err = ctxErr
    /\ node.heights.reduce # <<>>
    /\ node.heights.collectClosed = 1

\* the receipts in a list of proofs
RECURSIVE ReceiptsIn(_)
ReceiptsIn(list) ==
    IF list = <<>> THEN 0
    ELSE Len(Head(list).toShardID) + ReceiptsIn(Tail(list))

\* C32: the proofs one proposeReceiptsProof call returns hold no more
\* than IncomingReceiptsLimit receipts in total
C32_ReceiptsWithinLimit ==
    ReceiptsIn(node.validReceiptsList) <= IncomingReceiptsLimit

\* C33: the list proposeReceiptsProof returns is in ascending order of
\* (source shard, source block number), whatever the order in which the
\* pool is gone through
C33_ProposedInSourceOrder ==
    \A i, j \in 1..Len(node.validReceiptsList) :
        i < j =>
            LET a == node.validReceiptsList[i]
                b == node.validReceiptsList[j]
            IN  \/ a.shardID < b.shardID
                \/ a.shardID = b.shardID /\ a.blockNum <= b.blockNum

\* ------------------------------------------------ the slash candidates
\* New starts one task that ranges over Consensus.SlashChan: before the
\* staking epoch it returns, on a shard other than the beacon shard it
\* starts BroadcastSlash(&doubleSign) as a task of its own, on the beacon
\* shard it adds the record to the chain's pending slashes.
\* consensus puts a candidate for the double signer k into SlashChan
EmitSlash(k) ==
    /\ Len(consensus.slashChan) < MaxSlash
    /\ \A i \in 1..Len(consensus.slashChan) :
            consensus.slashChan[i].offender # k
    /\ k \notin node.emittedStaking
    /\ consensus' = [consensus EXCEPT !.slashChan = Append(@,
            [offender |-> k,
             signed |-> [hash |-> Hash(ForkBlock(1, 1)),
                         sig |-> Sign(k, Hash(ForkBlock(1, 1)))],
             doubleSigned |-> [hash |-> Hash(ForkBlock(2, 1)),
                               sig |-> Sign(k, Hash(ForkBlock(2, 1)))],
             beneficiary |-> SelfCoinbase])]
    /\ node' = [node EXCEPT !.emittedStaking =
                    IF isStaking THEN @ \cup {k} ELSE @]
    /\ UNCHANGED syncVars

\* the chain reaches the staking epoch
EnterStaking ==
    /\ ~isStaking
    /\ isStaking' = TRUE
    /\ UNCHANGED <<consensus, proposalNewBlock, commitFinishChan, proposerPC,
                   finishPC, finishWake, payloadCall, peer, hist, node>>

\* one turn of the loop over SlashChan; addOK: AddPendingSlashingCandidates
\* takes the record
HandleSlash(addOK) ==
    /\ node.slashPC = "run"
    /\ consensus.slashChan # <<>>
    /\ consensus' = [consensus EXCEPT !.slashChan = Tail(@)]
    /\ LET doubleSign == Head(consensus.slashChan)
       IN  IF ~isStaking
           THEN node' = [node EXCEPT !.doubleSign = doubleSign,
                                     !.slashPC = "returned"]
           ELSE IF consensus.shardID # BeaconChainShardID
           THEN node' = [node EXCEPT !.doubleSign = doubleSign,
                                     !.broadcasting = @ + 1]
           ELSE node' = [node EXCEPT
                    !.doubleSign = doubleSign,
                    !.pendingSlashes =
                        IF addOK THEN Append(@, doubleSign) ELSE @]
    /\ UNCHANGED syncVars

\* BroadcastSlash(&doubleSign): the task reads the loop variable when it
\* runs and sends the record to the beacon group; sendOK: the send works
BroadcastSlash(sendOK) ==
    /\ node.broadcasting > 0
    /\ node' = [node EXCEPT
            !.broadcasting = @ - 1,
            !.slashSent = IF sendOK THEN @ \cup {node.doubleSign} ELSE @]
    /\ UNCHANGED <<consensus, syncVars>>

InitSlash ==
    /\ \E sh \in {BeaconChainShardID, BeaconChainShardID + 1} :
            consensus = [InitConsensus EXCEPT !.shardID = sh]
    /\ proposalNewBlock = 1
    /\ commitFinishChan = <<>>
    /\ proposerPC = "run"
    /\ finishPC = "recv"
    /\ finishWake = 0
    /\ isStaking \in BOOLEAN
    /\ peer = [chain |-> <<>>, prepared |-> ZeroHash]
    /\ payloadCall = NoPayload
    /\ hist = InitHist
    /\ node = InitNode

NextSlash ==
    \/ \E k \in Validators : EmitSlash(k)
    \/ EnterStaking
    \/ \E addOK \in BOOLEAN : HandleSlash(addOK)
    \/ \E sendOK \in BOOLEAN : BroadcastSlash(sendOK)

SpecSlash == InitSlash /\ [][NextSlash]_vars

\* C34: a candidate emitted in a staking epoch is handled: while such a
\* candidate waits in SlashChan the task that reads the channel has not
\* returned, whatever arrived before the staking epoch
C34_SlashTaskKeepsRunning ==
    \A i \in 1..Len(consensus.slashChan) :
        consensus.slashChan[i].offender \in node.emittedStaking
            => node.slashPC = "run"

\* ------------------------------------------------- view change message
\* PREPARED messages the log of a validator may hold before its view change
\* timer fires
MaxLogMessages == 2
\* view-ids of the logged messages and of the node
MaxLogViewID == 2
\* the NIL marker an m2 message signs
NIL == <<1>>
\* the pending block of the validator and another block of the same number
PendingHash == <<1, 0, 1>> \o GenesisHash
OtherHash == <<1, 0, 2>> \o GenesisHash

\* the m1 message signs the PREPARED payload without the block hash
constructViewChangeMessage_NoHash(c) ==
    LET preparedMsgs == GetMessagesByTypeSeqHash(c, "PREPARED", c.blockNum,
                                                 c.blockHash)
        preparedMsg == FindMessageByMaxViewID(preparedMsgs)
        msgToSign == IF preparedMsg = NoBlock THEN NIL
                     ELSE preparedMsg.payload
        viewIDBytes == PutUintLE(c.viewID, 8)
    IN  [type |-> "VIEWCHANGE", viewID |-> c.viewID, blockNum |-> c.blockNum,
         shardID |-> c.shardID, sender |-> Self, leader |-> c.leaderPubKey,
         payload |-> IF preparedMsg = NoBlock THEN <<>> ELSE msgToSign,
         viewchangeSig |-> Sign(Self, msgToSign),
         viewidSig |-> Sign(Self, viewIDBytes)]

\* Consensus.constructViewChangeMessage
constructViewChangeMessage(c) ==
    LET preparedMsgs == GetMessagesByTypeSeqHash(c, "PREPARED", c.blockNum,
                                                 c.blockHash)
        preparedMsg == FindMessageByMaxViewID(preparedMsgs)
        msgToSign == IF preparedMsg = NoBlock THEN NIL
                     ELSE preparedMsg.blockHash \o preparedMsg.payload
        viewIDBytes == PutUintLE(c.viewID, 8)
    IN  [type |-> "VIEWCHANGE", viewID |-> c.viewID, blockNum |-> c.blockNum,
         shardID |-> c.shardID, sender |-> Self, leader |-> c.leaderPubKey,
         payload |-> IF preparedMsg = NoBlock THEN <<>> ELSE msgToSign,
         viewchangeSig |-> Sign(Self, msgToSign),
         viewidSig |-> Sign(Self, viewIDBytes)]

\* what a validator may have logged while it followed the leader: PREPARED
\* and COMMITTED messages of the pending and of the previous block number,
\* for either block hash, in any view up to the node's
LoggedMessages ==
    [type : {"PREPARED", "COMMITTED"}, blockNum : {1, 2},
     viewID : 0..MaxLogViewID, blockHash : {PendingHash, OtherHash},
     sender : {NextLeader}, payload : {<<7>>, <<9>>}, shardID : {0}]

\* the validator logs a message of the leader
LogMessage(m) ==
    /\ node.viewChangeMsg = NoBlock
    /\ Cardinality(consensus.msgs) < MaxLogMessages
    /\ m \notin consensus.msgs
    /\ m.viewID <= consensus.viewID
    /\ consensus' = AddMessage(consensus, m)
    /\ UNCHANGED <<node, syncVars>>

\* the view change timer fires: the validator builds its VIEWCHANGE message
SendViewChange ==
    /\ node.viewChangeMsg = NoBlock
    /\ node' = [node EXCEPT !.viewChangeMsg =
                                constructViewChangeMessage(consensus)]
    /\ UNCHANGED <<consensus, syncVars>>

InitViewChange ==
    /\ \E v \in 1..MaxLogViewID, s \in {0, 1} :
        consensus = [InitConsensus EXCEPT !.mode = "ViewChanging",
                                          !.viewID = v, !.blockNum = 2,
                                          !.blockHash = PendingHash,
                                          !.leaderPubKey = NextLeader,
                                          !.shardID = s]
    /\ proposalNewBlock = 0
    /\ commitFinishChan = <<>>
    /\ proposerPC = "run"
    /\ finishPC = "recv"
    /\ finishWake = 0
    /\ isStaking = FALSE
    /\ payloadCall = NoPayload
    /\ node = InitNode
    /\ peer = [chain |-> <<>>, prepared |-> ZeroHash]
    /\ hist = InitHist

NextViewChange ==
    \/ \E m \in LoggedMessages : LogMessage(m)
    \/ SendViewChange

SpecViewChange == InitViewChange /\ [][NextViewChange]_vars

\* C35: the VIEWCHANGE message is of form m1 (payload = block hash followed
\* by the payload of the PREPARED message with the highest view-id, signed)
\* exactly when the log holds a PREPARED message for the pending block
\* number and hash, and of form m2 (empty payload, signature over NIL)
\* otherwise; both carry the node's view-id, block number and shard-id and
\* a signature over the 8-byte little-endian view-id
C35_ViewChangeMessageForm ==
    node.viewChangeMsg # NoBlock =>
        LET m == node.viewChangeMsg
            c == consensus
            P == {p \in c.msgs : /\ p.type = "PREPARED"
                                 /\ p.blockNum = c.blockNum
                                 /\ p.blockHash = c.blockHash}
        IN  /\ m.viewID = c.viewID
            /\ m.blockNum = c.blockNum
            /\ m.shardID = c.shardID
            /\ m.viewidSig.signer = Self
            /\ Len(m.viewidSig.over) = 8
            /\ UintLE(m.viewidSig.over) = c.viewID
            /\ IF P = {}
               THEN /\ m.payload = <<>>
                    /\ VerifyHash(m.viewchangeSig, Self, NIL)
               ELSE /\ \E p \in P :
                        /\ \A o \in P : o.viewID <= p.viewID
                        /\ m.payload = c.blockHash \o p.payload
                    /\ VerifyHash(m.viewchangeSig, Self, m.payload)

\* an m1 message built from a log with two PREPARED messages of the pending
\* block in different views
C35_Witness ==
    /\ node.viewChangeMsg # NoBlock
    /\ node.viewChangeMsg.payload # <<>>
    /\ \E p, q \in consensus.msgs :
        /\ p.type = "PREPARED" /\ q.type = "PREPARED"
        /\ p.blockNum = consensus.blockNum /\ q.blockNum = consensus.blockNum
        /\ p.blockHash = consensus.blockHash
        /\ q.blockHash = consensus.blockHash
        /\ p.viewID < q.viewID

\* ------------------------------------------------------- BlockCommitSig
\* the chain of the shard up to MaxCommitSigHeight: block n is proposed in
\* view n - 1 on top of block n - 1
MaxCommitSigHeight == 2
RECURSIVE ShardBlock(_)
ShardBlock(n) ==
    [number |-> n, viewID |-> n - 1, salt |-> 0,
     parent |-> IF n = 1 THEN GenesisHash ELSE Hash(ShardBlock(n - 1))]

\* nil signature, nil bitmap: no bytes
NoCommitSig == [aggSig |-> {}, bitmap |-> {}]

\* the log look-up that takes any COMMITTED message of the block number
BlockCommitSig_AnyCommitted(c, blockNum, stored) ==
    LET num == c.blockNum
        msgs == GetMessagesByTypeSeq(c, "COMMITTED", num - 1)
    IN  IF num <= 1 THEN [sig |-> NoCommitSig, err |-> FALSE]
        ELSE IF stored = NoBlock /\ msgs = {}
        THEN [sig |-> NoCommitSig, err |-> TRUE]
        ELSE LET lastCommits == IF stored = NoBlock
                                THEN (CHOOSE m \in msgs : TRUE).payload
                                ELSE stored
             IN  [sig |-> [aggSig |-> lastCommits.sigs,
                           bitmap |-> lastCommits.bitmap],
                  err |-> FALSE]

\* Consensus.BlockCommitSig; stored is what ChainReader.ReadCommitSig
\* found for blockNum (NoBlock: an error or fewer bytes than a signature)
BlockCommitSig(c, blockNum, stored) ==
    LET num == c.blockNum
        msgs == GetMessagesByTypeSeq(c, "COMMITTED", num - 1)
    IN  IF num <= 1 THEN [sig |-> NoCommitSig, err |-> FALSE]
        ELSE IF stored = NoBlock /\ Cardinality(msgs) # 1
        THEN [sig |-> NoCommitSig, err |-> TRUE]
        ELSE LET lastCommits == IF stored = NoBlock
                                THEN (CHOOSE m \in msgs : TRUE).payload
                                ELSE stored
             IN  [sig |-> [aggSig |-> lastCommits.sigs,
                           bitmap |-> lastCommits.bitmap],
                  err |-> FALSE]

\* COMMITTED of the leader for block b with the signatures of signers
CommittedBy(b, signers) ==
    [type |-> "COMMITTED", blockNum |-> b.number, viewID |-> b.viewID,
     blockHash |-> Hash(b), sender |-> NextLeader,
     payload |-> [sigs |-> {Sign(k, ConstructCommitPayload(
                                isStaking, Hash(b), b.number, b.viewID)) :
                                    k \in signers},
                  bitmap |-> signers],
     shardID |-> 0]

\* what the leader sends in the rounds of the blocks: ANNOUNCE, PREPARED
\* and COMMITTED, and a second COMMITTED that aggregates one more signature
CommitSigMessages ==
    UNION {NewLeaderMessages(ShardBlock(n)) \cup
                {CommittedBy(ShardBlock(n), Committee)} :
            n \in 1..MaxCommitSigHeight}

\* commit signatures the chain store may hold for block number n
StoredCommitSigs(n) ==
    {NoBlock} \cup {m.payload : m \in {x \in CommitSigMessages :
                        x.type = "COMMITTED" /\ x.blockNum = n}}

\* the validator handles a message of the leader
CommitSigReceive(msg) ==
    /\ LET r == HandleMessageUpdate(consensus, msg)
       IN  consensus' = r.c
    /\ UNCHANGED <<node, syncVars>>

\* proposeNewBlock asks for the commit signatures of the head block
CallBlockCommitSig(stored) ==
    /\ LET blockNum == HeadNumber(consensus)
           r == BlockCommitSig(consensus, blockNum, stored)
       IN  node' = [node EXCEPT !.lastCommitSig =
                        [blockNum |-> blockNum, stored |-> stored,
                         sig |-> r.sig, err |-> r.err]]
    /\ UNCHANGED <<consensus, syncVars>>

\* New: the consensus block number is the head of the chain plus one, the
\* log is empty
InitCommitSig ==
    /\ \E h \in 0..(MaxCommitSigHeight - 1) :
        consensus = [InitConsensus EXCEPT
                        !.chain = [n \in 1..h |-> ShardBlock(n)],
                        !.blockNum = h + 1, !.viewID = h,
                        !.leaderPubKey = NextLeader]
    /\ proposalNewBlock = 0
    /\ commitFinishChan = <<>>
    /\ proposerPC = "run"
    /\ finishPC = "recv"
    /\ finishWake = 0
    /\ isStaking = TRUE
    /\ payloadCall = NoPayload
    /\ node = InitNode
    /\ peer = [chain |-> <<>>, prepared |-> ZeroHash]
    /\ hist = InitHist

NextCommitSig ==
    \/ \E msg \in CommitSigMessages : CommitSigReceive(msg)
    \/ \E stored \in StoredCommitSigs(HeadNumber(consensus)) :
            CallBlockCommitSig(stored)

SpecCommitSig == InitCommitSig /\ [][NextCommitSig]_vars

\* the COMMITTED messages of the log for the block before the pending one
LastCommitted(c) ==
    {m \in c.msgs : m.type = "COMMITTED" /\ m.blockNum = c.blockNum - 1}

\* a step in which tryCatchup commits a block
CatchupCommits ==
    /\ Len(consensus'.chain) = Len(consensus.chain) + 1
    /\ consensus'.blockNum = consensus.blockNum + 1

\* C36: BlockCommitSig returns nil, nil, nil while the block number is
\* <= 1; otherwise the stored signature and bitmap, and with none stored
\* those of the log's COMMITTED message for block number - 1: it succeeds
\* exactly when the log holds one and only one, and returns an error and
\* no signature otherwise; after a commit the log holds the COMMITTED
\* message of the block just committed
C36_BlockCommitSig ==
    [][/\ node'.lastCommitSig # node.lastCommitSig =>
            LET r == node'.lastCommitSig
                K == LastCommitted(consensus)
            IN  IF consensus.blockNum <= 1
                THEN ~r.err /\ r.sig = NoCommitSig
                ELSE IF r.stored # NoBlock
                THEN /\ ~r.err
                     /\ r.sig.aggSig = r.stored.sigs
                     /\ r.sig.bitmap = r.stored.bitmap
                ELSE /\ ~r.err <=> Cardinality(K) = 1
                     /\ r.err => r.sig = NoCommitSig
                     /\ ~r.err => \E m \in K :
                                    /\ r.sig.aggSig = m.payload.sigs
                                    /\ r.sig.bitmap = m.payload.bitmap
       /\ CatchupCommits =>
            \E m \in consensus'.msgs :
                /\ m.type = "COMMITTED"
                /\ m.blockNum = HeadNumber(consensus')
                /\ m.blockHash = HeadHash(consensus')
      ]_vars

\* after a commit the signature of the committed block was recovered from
\* the log
C36_Witness ==
    /\ Len(consensus.chain) = MaxCommitSigHeight
    /\ node.lastCommitSig # NoBlock
    /\ node.lastCommitSig.stored = NoBlock
    /\ ~node.lastCommitSig.err
    /\ node.lastCommitSig.sig # NoCommitSig
    /\ node.lastCommitSig.blockNum = MaxCommitSigHeight

\* ------------------------------------------------- bitmaps and ballots
\* the keys whose bit is set in a phase's bitmap are the voters that hold
\* a ballot of the phase
BitmapsMatchBallots(c) ==
    /\ c.prepareBitmap = Signers(c, "Prepare")
    /\ c.commitBitmap = Signers(c, "Commit")

MaxIncomingBlocks == 3
\* the blocks a client may deliver: of the beacon shard or of another
\* shard, or nil
IncomingBlocks ==
    [shardID : {BeaconChainShardID, BeaconChainShardID + 1},
     number : 1..2] \cup {NoBlock}

\* the dispatcher task takes the next block of IncomingBlocksClient; a nil
\* block is skipped, any other is to be sent on chans[0] or chans[1]
DispatcherRecv(blk) ==
    /\ node.incoming.dispatcher = "recv"
    /\ node.incoming.delivered < MaxIncomingBlocks
    /\ node' = [node EXCEPT
                !.incoming.delivered = @ + 1,
                !.incoming.blk = blk,
                !.incoming.dispatcher =
                    IF blk = NoBlock THEN "recv"
                    ELSE IF blk.shardID = BeaconChainShardID THEN "send0"
                    ELSE "send1"]
    /\ UNCHANGED <<consensus, syncVars>>

\* chans[0] is unbuffered: the send completes when the beacon-chain task
\* receives; the task returns when InsertChain fails
BeaconInserter(insertOK) ==
    /\ node.incoming.dispatcher = "send0"
    /\ node.incoming.beacon = "recv"
    /\ node' = [node EXCEPT
                !.incoming.dispatcher = "recv",
                !.incoming.beacon = IF insertOK THEN "recv" ELSE "returned",
                !.incoming.beaconchain =
                    IF insertOK THEN @ \cup {node.incoming.blk} ELSE @]
    /\ UNCHANGED <<consensus, syncVars>>

\* chans[1] is unbuffered: the shard-chain task receives and inserts the
\* block unless the node is on the beacon shard
ShardInserter(insertOK) ==
    /\ node.incoming.dispatcher = "send1"
    /\ node.incoming.shard = "recv"
    /\ LET inserts == consensus.shardID # BeaconChainShardID
       IN  node' = [node EXCEPT
                !.incoming.dispatcher = "recv",
                !.incoming.shard =
                    IF inserts /\ ~insertOK THEN "returned" ELSE "recv",
                !.incoming.blockchain =
                    IF inserts /\ insertOK
                    THEN @ \cup {node.incoming.blk} ELSE @]
    /\ UNCHANGED <<consensus, syncVars>>

InitIncoming ==
    /\ \E sh \in {BeaconChainShardID, BeaconChainShardID + 1} :
            consensus = [InitConsensus EXCEPT !.shardID = sh]
    /\ proposalNewBlock = 1
    /\ commitFinishChan = <<>>
    /\ proposerPC = "run"
    /\ finishPC = "recv"
    /\ finishWake = 0
    /\ isStaking = FALSE
    /\ peer = [chain |-> <<>>, prepared |-> ZeroHash]
    /\ payloadCall = NoPayload
    /\ hist = InitHist
    /\ node = InitNode

NextIncoming ==
    \/ \E blk \in IncomingBlocks : DispatcherRecv(blk)
    \/ \E insertOK \in BOOLEAN : BeaconInserter(insertOK)
    \/ \E insertOK \in BOOLEAN : ShardInserter(insertOK)

SpecIncoming == InitIncoming /\ [][NextIncoming]_vars

\* C38: the dispatcher can always hand the block it holds to its inserter:
\* it never waits to send on a channel whose inserter task has returned;
\* only beacon-shard blocks are inserted into the beacon chain, and other
\* blocks into the node's chain only when the node is not on the beacon
\* shard
C38_DispatcherCanHandOver ==
    /\ ~(node.incoming.dispatcher = "send0"
            /\ node.incoming.beacon = "returned")
    /\ ~(node.incoming.dispatcher = "send1"
            /\ node.incoming.shard = "returned")
    /\ \A b \in node.incoming.beaconchain : b.shardID = BeaconChainShardID
    /\ \A b \in node.incoming.blockchain :
            /\ b.shardID # BeaconChainShardID
            /\ consensus.shardID # BeaconChainShardID

\* C39: a round of syncFromHMYPeersIfNeeded completes normally for any
\* number of eligible peers, fewer than seven included, and the peers it
\* probed and grouped are at most seven
C39_ProbeCompletes ==
    /\ node.syncPC # "panic"
    /\ Cardinality(UNION {node.clusters[i] : i \in DOMAIN node.clusters})
            <= ProbeLimit

\* -------------------------------------------------------------- Reshard
\* shards of the network, nodes of a shard, new nodes of an epoch, seeds
MaxShards == 13
MaxShardSize == 3
MaxNewNodes == 2
MaxSeed == 1
\* CuckooRate = 0.1, in percent
CuckooRate == 10

\* ---- sort.Slice of the go 1.14 toolchain (sort/zfuncversion.go), on a
\* ---- slice of committees with less(i, j) of sortCommitteeBySize; the
\* ---- indices are those of the Go code, counted from 0
CommitteeLess(x, i, j) == Len(x[i + 1].nodeList) > Len(x[j + 1].nodeList)
SwapAt(x, i, j) == [x EXCEPT ![i + 1] = x[j + 1], ![j + 1] = x[i + 1]]

\* (a recursive call and a later stage take their arguments as the value of
\* a bound variable, v \in {e}, so that e is evaluated once)
RECURSIVE insertionInner(_, _, _)
insertionInner(x, j, a) ==
    IF j > a /\ CommitteeLess(x, j, j - 1)
    THEN CHOOSE r \in {insertionInner(s.x, s.j, s.a) :
                        s \in {[x |-> SwapAt(x, j, j - 1), j |-> j - 1,
                                a |-> a]}} : TRUE
    ELSE x
RECURSIVE insertionOuter(_, _, _, _)
insertionOuter(x, i, a, b) ==
    IF i < b
    THEN CHOOSE r \in {insertionOuter(s.x, s.i, s.a, s.b) :
                        s \in {[x |-> insertionInner(x, i, a), i |-> i + 1,
                                a |-> a, b |-> b]}} : TRUE
    ELSE x
insertionSort_func(x, a, b) == insertionOuter(x, a + 1, a, b)

\* quickSort_func: the ShellSort pass with gap 6
RECURSIVE shellPass(_, _, _)
shellPass(x, i, b) ==
    IF i < b
    THEN CHOOSE r \in {shellPass(s.x, s.i, s.b) :
                        s \in {[x |-> IF CommitteeLess(x, i, i - 6)
                                      THEN SwapAt(x, i, i - 6) ELSE x,
                                i |-> i + 1, b |-> b]}} : TRUE
    ELSE x

RECURSIVE siftDown_func(_, _, _, _)
siftDown_func(x, lo, hi, first) ==
    LET child0 == 2 * lo + 1
        child == IF child0 + 1 < hi
                    /\ CommitteeLess(x, first + child0, first + child0 + 1)
                 THEN child0 + 1 ELSE child0
    IN  IF child0 >= hi THEN x
        ELSE IF ~CommitteeLess(x, first + lo, first + child) THEN x
        ELSE CHOOSE r \in {siftDown_func(s.x, s.root, s.hi, s.first) :
                        s \in {[x |-> SwapAt(x, first + lo, first + child),
                                root |-> child, hi |-> hi,
                                first |-> first]}} : TRUE
RECURSIVE heapBuild(_, _, _, _)
heapBuild(x, i, hi, first) ==
    IF i >= 0
    THEN CHOOSE r \in {heapBuild(s.x, s.i, s.hi, s.first) :
                        s \in {[x |-> siftDown_func(x, i, hi, first),
                                i |-> i - 1, hi |-> hi,
                                first |-> first]}} : TRUE
    ELSE x
RECURSIVE heapPop(_, _, _)
heapPop(x, i, first) ==
    IF i >= 0
    THEN CHOOSE r \in {heapPop(s.x, s.i, s.first) :
                        s \in {[x |-> CHOOSE y \in
                                        {siftDown_func(z, 0, i, first) :
                                            z \in {SwapAt(x, first,
                                                          first + i)}} : TRUE,
                                i |-> i - 1, first |-> first]}} : TRUE
    ELSE x
heapSort_func(x, a, b) ==
    CHOOSE r \in {heapPop(y, (b - a) - 1, a) :
                    y \in {heapBuild(x, ((b - a) - 1) \div 2, b - a, a)}} :
        TRUE

medianOfThree_func(x, m1, m0, m2) ==
    CHOOSE r \in
        {IF CommitteeLess(x1, m2, m1)
         THEN CHOOSE q \in
                {IF CommitteeLess(x2, m1, m0) THEN SwapAt(x2, m1, m0)
                 ELSE x2 : x2 \in {SwapAt(x1, m2, m1)}} : TRUE
         ELSE x1 :
            x1 \in {IF CommitteeLess(x, m1, m0) THEN SwapAt(x, m1, m0)
                    ELSE x}} : TRUE

\* doPivot_func: for ; a < c && less(a, pivot); a++
RECURSIVE scanLess(_, _, _, _)
scanLess(x, a, c, pivot) ==
    IF a < c /\ CommitteeLess(x, a, pivot)
    THEN CHOOSE r \in {scanLess(x, a1, c, pivot) : a1 \in {a + 1}} : TRUE
    ELSE a
\* for ; b < c && !less(pivot, b); b++
RECURSIVE scanNotGreater(_, _, _, _)
scanNotGreater(x, b, c, pivot) ==
    IF b < c /\ ~CommitteeLess(x, pivot, b)
    THEN CHOOSE r \in {scanNotGreater(x, b1, c, pivot) : b1 \in {b + 1}} :
            TRUE
    ELSE b
\* for ; b < c && less(pivot, c-1); c--
RECURSIVE scanGreater(_, _, _, _)
scanGreater(x, b, c, pivot) ==
    IF b < c /\ CommitteeLess(x, pivot, c - 1)
    THEN CHOOSE r \in {scanGreater(x, b, c1, pivot) : c1 \in {c - 1}} : TRUE
    ELSE c
\* the partition loop: swap(b, c-1); b++; c--
RECURSIVE partition(_, _, _, _)
partition(x, b0, c0, pivot) ==
    CHOOSE r \in
        {IF s.b >= s.c THEN [x |-> x, b |-> s.b, c |-> s.c]
         ELSE CHOOSE q \in
                {partition(n.x, n.b, n.c, pivot) :
                    n \in {[x |-> SwapAt(x, s.b, s.c - 1),
                            b |-> s.b + 1, c |-> s.c - 1]}} : TRUE :
            s \in {CHOOSE t \in
                        {[b |-> b, c |-> scanGreater(x, b, c0, pivot)] :
                            b \in {scanNotGreater(x, b0, c0, pivot)}} :
                     TRUE}} : TRUE
\* for ; a < b && !less(b-1, pivot); b--
RECURSIVE scanEqualDown(_, _, _, _)
scanEqualDown(x, a, b, pivot) ==
    IF a < b /\ ~CommitteeLess(x, b - 1, pivot)
    THEN CHOOSE r \in {scanEqualDown(x, a, b1, pivot) : b1 \in {b - 1}} :
            TRUE
    ELSE b
\* the loop that protects against a lot of duplicates
RECURSIVE protectLoop(_, _, _, _)
protectLoop(x, a0, b0, pivot) ==
    CHOOSE r \in
        {IF s.a >= s.b THEN [x |-> x, b |-> s.b]
         ELSE CHOOSE q \in
                {protectLoop(n.x, n.a, n.b, pivot) :
                    n \in {[x |-> SwapAt(x, s.a, s.b - 1),
                            a |-> s.a + 1, b |-> s.b - 1]}} : TRUE :
            s \in {CHOOSE t \in
                        {[b |-> b, a |-> scanLess(x, a0, b, pivot)] :
                            b \in {scanEqualDown(x, a0, b0, pivot)}} :
                     TRUE}} : TRUE

\* doPivot_func, the medians: x with the pivot at lo
pivotMedians(x0, lo, hi) ==
    LET m == (lo + hi) \div 2
        s == (hi - lo) \div 8
    IN  CHOOSE r \in
            {medianOfThree_func(x1, lo, m, hi - 1) :
                x1 \in {IF hi - lo > 40
                        THEN CHOOSE q \in
                              {medianOfThree_func(y2, hi - 1, hi - 1 - s,
                                                  hi - 1 - 2 * s) :
                                y2 \in {CHOOSE p \in
                                    {medianOfThree_func(y1, m, m - s, m + s) :
                                        y1 \in {medianOfThree_func(
                                            x0, lo, lo + s, lo + 2 * s)}} :
                                    TRUE}} : TRUE
                        ELSE x0}} : TRUE
\* doPivot_func, the partition of x around the pivot at lo
pivotPartition(x, lo, hi) ==
    CHOOSE r \in
        {[a |-> a, p |-> partition(x, a, hi - 1, lo)] :
            a \in {scanLess(x, lo + 1, hi - 1, lo)}} : TRUE
\* doPivot_func, the count of duplicates of the pivot after the partition p
pivotDups(p, lo, hi) ==
    LET m == (lo + hi) \div 2
        pivot == lo
    IN  CHOOSE r \in
            {CHOOSE q \in
                {IF ~CommitteeLess(d2.x, m, pivot)
                 THEN [d2 EXCEPT !.x = SwapAt(d2.x, m, d2.b - 1),
                                 !.b = @ - 1, !.dups = @ + 1]
                 ELSE d2 :
                    d2 \in {IF ~CommitteeLess(d1.x, d1.b - 1, pivot)
                            THEN [d1 EXCEPT !.b = @ - 1, !.dups = @ + 1]
                            ELSE d1}} : TRUE :
                d1 \in {IF ~CommitteeLess(p.x, pivot, hi - 1)
                        THEN [x |-> SwapAt(p.x, p.c, hi - 1), b |-> p.b,
                              c |-> p.c + 1, dups |-> 1]
                        ELSE [x |-> p.x, b |-> p.b, c |-> p.c,
                              dups |-> 0]}} : TRUE

doPivot_func(x0, lo, hi) ==
    CHOOSE result \in
        {CHOOSE r2 \in
            {CHOOSE r3 \in
                {[x |-> SwapAt(r.x, lo, r.b - 1), midlo |-> r.b - 1,
                  midhi |-> q.c] :
                    r \in {IF q.protect
                           THEN protectLoop(q.x, s.a, q.b, lo)
                           ELSE [x |-> q.x, b |-> q.b]}} : TRUE :
                q \in {IF hi - s.p.c < 5
                       THEN [x |-> s.p.x, b |-> s.p.b, c |-> s.p.c,
                             protect |-> TRUE]
                       ELSE IF hi - s.p.c < (hi - lo) \div 4
                       THEN CHOOSE d \in
                              {[x |-> d3.x, b |-> d3.b, c |-> d3.c,
                                protect |-> d3.dups > 1] :
                                    d3 \in {pivotDups(s.p, lo, hi)}} : TRUE
                       ELSE [x |-> s.p.x, b |-> s.p.b, c |-> s.p.c,
                             protect |-> FALSE]}} : TRUE :
            s \in {CHOOSE s0 \in
                    {pivotPartition(x2, lo, hi) :
                        x2 \in {pivotMedians(x0, lo, hi)}} : TRUE}} : TRUE

RECURSIVE quickSort_func(_, _, _, _)
quickSort_func(x, a, b, depth) ==
    IF b - a > 12
    THEN IF depth = 0 THEN heapSort_func(x, a, b)
         ELSE CHOOSE r \in
                {IF d.midlo - a < b - d.midhi
                 THEN CHOOSE q \in
                        {quickSort_func(y, d.midhi, b, depth - 1) :
                            y \in {quickSort_func(d.x, a, d.midlo,
                                                  depth - 1)}} : TRUE
                 ELSE CHOOSE q \in
                        {quickSort_func(y, a, d.midlo, depth - 1) :
                            y \in {quickSort_func(d.x, d.midhi, b,
                                                  depth - 1)}} : TRUE :
                    d \in {doPivot_func(x, a, b)}} : TRUE
    ELSE IF b - a > 1
    THEN CHOOSE r \in {insertionSort_func(y, a, b) :
                        y \in {shellPass(x, a + 6, b)}} : TRUE
    ELSE x

\* maxDepth: 2*ceil(lg(n+1))
RECURSIVE bitLen(_)
bitLen(i) == IF i > 0 THEN 1 + bitLen(i \div 2) ELSE 0
maxDepth(n) == 2 * bitLen(n)

\* ShardingState.sortCommitteeBySize
sortCommitteeBySize(shardState) ==
    CHOOSE r \in {quickSort_func(x, 0, Len(x), maxDepth(Len(x))) :
                    x \in {shardState}} : TRUE

\* ---- the node lists
\* a sequence of the nodes of a set, by ascending key
RECURSIVE ByKey(_)
ByKey(S) ==
    IF S = {} THEN <<>>
    ELSE LET least == CHOOSE n \in S : \A o \in S : n <= o
         IN  <<least>> \o ByKey(S \ {least})
Elements(list) == {list[i] : i \in DOMAIN list}

\* Shuffle: the list sorted by key, then permuted as the seeded generator
\* says; the permutation of a seed is modelled as the rotation by the seed
Shuffle(list, rnd) ==
    CHOOSE r \in
        {IF Len(sorted) = 0 THEN <<>>
         ELSE [i \in 1..Len(sorted) |->
                    sorted[((i - 1 + rnd) % Len(sorted)) + 1]] :
            sorted \in {ByKey(Elements(list))}} : TRUE

\* assignNewNodes: the nodes of newNodeList go round the active shards
RECURSIVE appendRound(_, _, _, _)
appendRound(shardState, list, i, numActiveShards) ==
    IF i >= Len(list) THEN shardState
    ELSE LET id == IF numActiveShards > 0 THEN i % numActiveShards ELSE 0
         IN  CHOOSE r \in
                {appendRound(s, list, i + 1, numActiveShards) :
                    s \in {IF id < Len(shardState)
                           THEN [shardState EXCEPT ![id + 1].nodeList =
                                                    Append(@, list[i + 1])]
                           ELSE shardState}} : TRUE
assignNewNodes(shardState, newNodeList, rnd) ==
    CHOOSE r \in
        {appendRound(s.sorted, s.list, 0, Len(s.sorted) \div 2) :
            s \in {[sorted |-> sortCommitteeBySize(shardState),
                    list |-> Shuffle(newNodeList, rnd)]}} : TRUE

\* cuckooResharding: the nodes kicked out of the active shard at index i
\* and after it, and the shards without them
numKicked(length, percent) ==
    LET k == (percent * length) \div 100
    IN  IF k = 0 THEN 1 ELSE k
RECURSIVE kickOut(_, _, _, _, _)
kickOut(shardState, kickedNodes, i, numActiveShards, percent) ==
    IF i >= Len(shardState) \/ i >= numActiveShards
    THEN [shardState |-> shardState, kickedNodes |-> kickedNodes]
    ELSE LET list == shardState[i + 1].nodeList
             length == Len(list)
             k == numKicked(length, percent)
         IN  IF length - k <= 0
             THEN kickOut(shardState, kickedNodes, i + 1, numActiveShards,
                          percent)
             ELSE CHOOSE r \in
                    {kickOut(s.shardState, s.kickedNodes, s.i,
                             numActiveShards, percent) :
                        s \in {[shardState |->
                                    [shardState EXCEPT ![i + 1].nodeList =
                                        SubSeq(list, 1, length - k)],
                                kickedNodes |->
                                    kickedNodes \o
                                        SubSeq(list, length - k + 1, length),
                                i |-> i + 1]}} : TRUE
RECURSIVE appendInactive(_, _, _, _)
appendInactive(shardState, list, i, numActiveShards) ==
    IF i >= Len(list) THEN shardState
    ELSE LET numInactiveShards == Len(shardState) - numActiveShards
             id == IF numInactiveShards > 0
                   THEN numActiveShards + (i % numInactiveShards)
                   ELSE numActiveShards
         IN  CHOOSE r \in
                {appendInactive(s, list, i + 1, numActiveShards) :
                    s \in {[shardState EXCEPT ![id + 1].nodeList =
                                                Append(@, list[i + 1])]}} :
                TRUE
cuckooResharding(shardState, percent, rnd) ==
    CHOOSE r \in
        {CHOOSE q \in
            {appendInactive(k.shardState, list, 0, Len(shardState) \div 2) :
                list \in {Shuffle(k.kickedNodes, rnd)}} : TRUE :
            k \in {kickOut(shardState, <<>>, 0, Len(shardState) \div 2,
                           percent)}} : TRUE

\* Reshard, lines 93-102: the leaders are taken out, the rest is shuffled
takeLeaders(shardState, rnd) ==
    [shardState |->
        [i \in DOMAIN shardState |->
            IF Len(shardState[i].nodeList) > 0
            THEN [shardState[i] EXCEPT !.nodeList = Shuffle(Tail(@), rnd)]
            ELSE shardState[i]],
     leaders |->
        [i \in DOMAIN shardState |-> shardState[i].nodeList[1]]]

\* ShardingState.Reshard (every shard has a node: the loop that takes the
\* leaders takes one of each shard)
Reshard(shardState, newNodeList, percent, rnd) ==
    CHOOSE result \in
        {CHOOSE r \in
            {[i \in DOMAIN resharded |->
                [resharded[i] EXCEPT !.nodeList = <<t.leaders[i]>> \o @]] :
                resharded \in
                    {CHOOSE c \in
                        {cuckooResharding(assigned, percent, rnd) :
                            assigned \in {assignNewNodes(t.shardState,
                                            newNodeList, rnd)}} : TRUE}} :
                TRUE :
            t \in {CHOOSE l \in
                    {takeLeaders(sorted, rnd) :
                        sorted \in {sortCommitteeBySize(shardState)}} :
                    TRUE}} : TRUE

\* the shards before an epoch change: each has its leader at index 0, the
\* first `larger` shards have one node more than the others
ShardStates(numShards, larger, size) ==
    [i \in 1..numShards |->
        [shardID |-> i - 1,
         nodeList |-> [j \in 1..(size + IF i <= larger THEN 1 ELSE 0) |->
                            100 * i + j]]]

\* the epoch changes: the shard state is resharded with the new nodes
CallReshard ==
    /\ ~node.reshard.done
    /\ node' = [node EXCEPT
                !.reshard.done = TRUE,
                !.reshard.shardState =
                    Reshard(node.reshard.shardState, node.reshard.newNodeList,
                            CuckooRate, node.reshard.rnd)]
    /\ UNCHANGED <<consensus, syncVars>>

InitReshard ==
    /\ consensus = InitConsensus
    /\ proposalNewBlock = 1
    /\ commitFinishChan = <<>>
    /\ proposerPC = "run"
    /\ finishPC = "recv"
    /\ finishWake = 0
    /\ isStaking = FALSE
    /\ peer = [chain |-> <<>>, prepared |-> ZeroHash]
    /\ payloadCall = NoPayload
    /\ hist = InitHist
    /\ \E numShards \in {2, 3, MaxShards} :
       \E larger \in 0..numShards, size \in 1..(MaxShardSize - 1),
          new \in 0..MaxNewNodes, rnd \in 0..MaxSeed :
            node = [InitNode EXCEPT !.reshard =
                        [done |-> FALSE, rnd |-> rnd,
                         before |-> ShardStates(numShards, larger, size),
                         shardState |-> ShardStates(numShards, larger, size),
                         newNodeList |-> [j \in 1..new |-> 9000 + j]]]

NextReshard == CallReshard

SpecReshard == InitReshard /\ [][NextReshard]_vars

\* the leader of the shard with a shard id in a shard state
LeaderOf(shardState, id) ==
    LET i == CHOOSE i \in DOMAIN shardState : shardState[i].shardID = id
    IN  shardState[i].nodeList[1]

\* C40: after Reshard each shard has at index 0 of its node list the node
\* that was at index 0 before, whatever the new nodes and the sizes of the
\* shards, equal sizes included
C40_LeadersKept ==
    node.reshard.done =>
        \A id \in {node.reshard.before[i].shardID :
                        i \in DOMAIN node.reshard.before} :
            LeaderOf(node.reshard.shardState, id)
                = LeaderOf(node.reshard.before, id)

====
